---- MODULE Spec2Model ----
(***************************************************************************)
(* Landslide dashboard (app/(tabs)/index.tsx): the field ground-check      *)
(* session, the proximity / push notification latches and the remote       *)
(* fetches of the IndexScreen component, as a state machine.               *)
(*                                                                         *)
(* One action is one event-loop task of the single JavaScript thread: a    *)
(* user tap, a timer firing, a sensor callback, or the continuation of an  *)
(* awaited promise, together with the React re-render and the effect       *)
(* cleanups / effect bodies that the task's state updates cause.           *)
(***************************************************************************)
EXTENDS Integers, Sequences, FiniteSets, TLC

\* ---------------------------------------------------------------- bounds
\* Effect runs (startRecording closures) created over one component lifetime.
MaxRuns == 2
\* handleToggleGroundCheck start calls awaiting their connectivity check.
MaxPendingStarts == 1
\* Accelerometer samples delivered over one component lifetime (SpecSession).
MaxSessionSamples == 2
\* Location fixes held in groundPoints.
MaxPoints == 1
\* Accelerometer samples delivered in the long-recording specification.
MaxLongSamples == 302

\* Alerts / notifications counted over one component lifetime.
MaxNotifications == 2

\* ------------------------------------------------------- program constants
PROXIMITY_THRESHOLD_METERS == 100
\* The re-arm margin of the proximity latch: PROXIMITY_THRESHOLD_METERS + 20.
ProximityRearmMargin == 20
\* PUSH_RISK_THRESHOLD = 0.7 and the re-arm margin 0.1, in hundredths.
PUSH_RISK_THRESHOLD == 70
PushRearmMargin == 10
\* Number.MAX_SAFE_INTEGER is beyond the model checker's integers; the
\* ceiling of distanceMeters is the largest integer it has.
DistanceCeiling == 2147483647
\* Risk levels are kept as integers: level * LevelScale. Every ramp width
\* (40, 20, 120, and 25 tenths) divides 600, so the levels are exact.
LevelScale == 600
\* WEIGHTS are in hundredths, so weightedScore is kept times
\* LevelScale * 100 and probability times ProbScale = LevelScale * 100 * 100.
WeightScale == 100
\* recordAccelerometer keeps prev.slice(-300) before appending.
GroundSliceWindow == 300

RunIds == 1..MaxRuns
NoRun == 0
\* groundTrust === null
NullTrust == -1

\* Accelerometer readings {x, y, z} in hundredths of g.
Readings == { <<0, 0, 0>>, <<100, 100, 100>> }
CalmReading == { <<0, 0, 0>> }

VARIABLES
    phase,            \* "init" before the first effects ran, "mounted", "unmounted"
    groundRunning,    \* useState groundRunning
    groundTimerRef,   \* groundTimerRef.current: the run whose timeout it holds, or NoRun
    timers,           \* runs whose 5-minute setTimeout is pending
    runs,             \* one record per run of the ground-session effect body
    curRun,           \* the run whose cleanup React holds for the ground-session effect
    nRuns,            \* runs created so far
    pendingStarts,    \* handleToggleGroundCheck calls awaiting ensureConnectivity
    groundSamples,    \* useState groundSamples
    groundPoints,     \* useState groundPoints
    groundTrust,      \* useState groundTrust
    nSamples,         \* accelerometer samples delivered so far (arrival numbering)
    settings,         \* useSettings().settings: id, lang, notifications
    env,              \* what the device and the remote services answer in this run
    globalData,       \* useState globalData
    sensorSnapshot,   \* useState sensorSnapshot
    proximityNotified,\* proximityNotified.current
    pushSentRef,      \* pushSentRef.current
    expoPushToken,    \* useState expoPushToken (TRUE: a token is held)
    pushRegistration, \* registerForPushNotificationsAsync() calls awaiting their token
    notif,            \* alerts and notifications dispatched so far
    geocodeFetchedRef,\* geocodeFetchedRef.current
    rainfallFetchedRef,\* rainfallFetchedRef.current
    geocodeReq,       \* the geocode fetch and its AbortController
    rainReq,          \* the rainfall fetch and its AbortController
    globalReq,        \* the Firebase `global` read and its AbortController
    hist,             \* history of the effect evaluations (observers only)
    storageHydrated,  \* SettingsProvider useState storageHydrated
    idEnsured,        \* SettingsProvider idEnsured.current
    hydration,        \* position of the hydration effect's load(): "idle", "loading", "done"
    cloudReqs,        \* the loadCloudSettings calls made so far, in order
    provinces,        \* MonitoringProvider useState provinces
    provincesReq,     \* position of loadProvinces(): "idle", "pending", "done"
    isFetchingProvinces, \* useState isFetchingProvinces
    provinceError,    \* useState provinceError (TRUE: a message is held)
    activeSite,       \* useState activeSite: a province, or NoSite
    locationQuery,    \* useState locationQuery: the name of a province, or NoSite
    activeCoords,     \* useState activeCoords: whose coordinates they are, or NoCoords
    locationStatus,   \* useState locationStatus
    isResolvingSelection, \* useState isResolvingSelection
    hasAttemptedAutoLocate, \* useState hasAttemptedAutoLocate
    currentLocationLabel, \* useState currentLocationLabel: a name, or NoSite
    autoLocate,       \* resolveDeviceLocation(): where it stands, its `cancelled`,
                      \* and whether the device position was obtained
    selections,       \* the handleSelectSite calls made so far, in order
    mapStatus,        \* MapScreen useState status
    webview           \* position of the WebView's current load

providerVars == << storageHydrated, idEnsured, hydration, cloudReqs >>

sessionVars == << groundRunning, groundTimerRef, timers, runs, curRun, nRuns,
                  pendingStarts, groundSamples, groundPoints, groundTrust, nSamples >>

dataVars == << globalData, sensorSnapshot, proximityNotified, pushSentRef, notif,
               geocodeFetchedRef, rainfallFetchedRef, geocodeReq, rainReq, hist >>

otherDataVars == << expoPushToken, pushRegistration, globalReq >>

monitoringVars == << provinces, provincesReq, isFetchingProvinces, provinceError,
                     activeSite, locationQuery, activeCoords, locationStatus,
                     isResolvingSelection, hasAttemptedAutoLocate,
                     currentLocationLabel, autoLocate, selections >>

mapVars == << mapStatus, webview >>

\* The state of the home screen and of the SettingsProvider.
homeVars == << phase, groundRunning, groundTimerRef, timers, runs, curRun, nRuns,
               pendingStarts, groundSamples, groundPoints, groundTrust, nSamples,
               settings, env, globalData, sensorSnapshot, proximityNotified,
               pushSentRef, expoPushToken, pushRegistration, notif, geocodeFetchedRef,
               rainfallFetchedRef, geocodeReq, rainReq, globalReq, hist,
               storageHydrated, idEnsured, hydration, cloudReqs >>

vars == << phase, groundRunning, groundTimerRef, timers, runs, curRun, nRuns,
           pendingStarts, groundSamples, groundPoints, groundTrust, nSamples,
           settings, env, globalData, sensorSnapshot, proximityNotified, pushSentRef,
           expoPushToken, pushRegistration, notif, geocodeFetchedRef,
           rainfallFetchedRef, geocodeReq, rainReq, globalReq, hist,
           storageHydrated, idEnsured, hydration, cloudReqs, provinces, provincesReq,
           isFetchingProvinces, provinceError, activeSite, locationQuery,
           activeCoords, locationStatus, isResolvingSelection,
           hasAttemptedAutoLocate, currentLocationLabel, autoLocate, selections,
           mapStatus, webview >>

\* activeSite === null, an empty locationQuery, currentLocationLabel === null
NoSite == "none"
\* activeCoords === null
NoCoords == "none"

\* ------------------------------------------------------------ pure helpers
Abs(x) == IF x < 0 THEN -x ELSE x

\* The IEEE values that are not finite numbers, kept apart from every finite
\* number of the model.
PositiveInfinity == 2000000001
NegativeInfinity == -2000000001
NotANumber == -2000000002

IsFinite(x) == x \notin { PositiveInfinity, NegativeInfinity, NotANumber }

\* a + b on numbers
JsAdd(a, b) ==
    IF a = NotANumber \/ b = NotANumber THEN NotANumber
    ELSE IF ~IsFinite(a) THEN (IF ~IsFinite(b) /\ b # a THEN NotANumber ELSE a)
    ELSE IF ~IsFinite(b) THEN b
    ELSE a + b

\* clamp(value, min, max) = Math.min(max, Math.max(min, value)); Math.max and
\* Math.min return NaN when an argument is NaN.
clamp(value, min, max) ==
    IF value = NotANumber THEN NotANumber
    ELSE LET lo == IF value < min THEN min ELSE value
         IN  IF lo > max THEN max ELSE lo

\* samples.reduce((sum, s) => sum + |s.ax| + |s.ay| + |s.az|, 0), over the
\* index range lo..hi (halved, so that the evaluation depth stays logarithmic).
RECURSIVE SumMagnitudeRange(_, _, _)
SumMagnitudeRange(samples, lo, hi) ==
    IF lo > hi THEN 0
    ELSE IF lo = hi
         THEN Abs(samples[lo].ax) + Abs(samples[lo].ay) + Abs(samples[lo].az)
         ELSE LET mid == (lo + hi) \div 2
              IN  SumMagnitudeRange(samples, lo, mid)
                  + SumMagnitudeRange(samples, mid + 1, hi)

SumMagnitude(samples) == SumMagnitudeRange(samples, 1, Len(samples))

\* Variant: 100 - avgMagnitude * 40 rounded without the clamp.
groundTrustScoreUnclamped(samples) ==
    IF Len(samples) = 0 THEN NullTrust
    ELSE LET n == Len(samples)
         IN  (2 * (500 * n - 2 * SumMagnitude(samples)) + 5 * n) \div (10 * n)

\* groundTrustScore: null for an empty buffer, else
\* Math.round(clamp(100 - avgMagnitude * 40, 0, 100)), readings in hundredths:
\* 100 - 40 * sum / (100 * n) = (500 n - 2 sum) / (5 n), clamped, then
\* Math.round(q) = floor(q + 1/2).
groundTrustScore(samples) ==
    IF Len(samples) = 0 THEN NullTrust
    ELSE LET n   == Len(samples)
             num == clamp(500 * n - 2 * SumMagnitude(samples), 0, 500 * n)
         IN  (2 * num + 5 * n) \div (10 * n)

\* prev.slice(-k): the last k elements (all of them when there are fewer).
SliceLast(s, k) ==
    IF Len(s) <= k THEN s ELSE SubSeq(s, Len(s) - k + 1, Len(s))

\* ------------------------------------------------------- the scoring chain
\* A JSON value as typeof / Number.isNaN see it.
Num(v) == [ type |-> "number", v |-> v ]
Undefined == [ type |-> "undefined", v |-> 0 ]
NaN == [ type |-> "NaN", v |-> 0 ]

\* asNumber: typeof value === "number" && !Number.isNaN(value) ? value : fallback
asNumber(value, fallback) == IF value.type = "number" THEN value.v ELSE fallback

\* createSnapshotFromData. Units: soil moisture in %, slope in degrees,
\* rainfall in mm, ground vibration in tenths of cm/s^2.
createSnapshotFromData(data) ==
    [ soilMoisture    |-> asNumber(data.do_am_dat, 0),
      slopeAngle      |-> asNumber(data.do_doc, 0),
      rainfall24h     |-> asNumber(data.mua_24h, 0),
      groundVibration |-> asNumber(data.do_rung_dat, 0) ]

\* Variant: the ratio without the clamp.
riskFromRangeUnclamped(value, startRisk, danger) ==
    IF IsFinite(value)
    THEN ((value - startRisk) * LevelScale) \div (danger - startRisk)
    ELSE value

\* riskFromRange = clamp((value - startRisk) / (danger - startRisk), 0, 1),
\* times LevelScale.
riskFromRange(value, startRisk, danger) ==
    LET ratio == IF IsFinite(value)
                 THEN ((value - startRisk) * LevelScale) \div (danger - startRisk)
                 ELSE value
    IN  clamp(ratio, 0, LevelScale)

riskLevels(snapshot) ==
    [ soilMoisture    |-> riskFromRange(snapshot.soilMoisture, 60, 100),
      rainfall24h     |-> riskFromRange(snapshot.rainfall24h, 80, 200),
      slopeAngle      |-> riskFromRange(snapshot.slopeAngle, 25, 45),
      groundVibration |-> riskFromRange(snapshot.groundVibration, 40, 65) ]

WEIGHTS == [ soilMoisture |-> 32, slopeAngle |-> 31, rainfall24h |-> 22,
             groundVibration |-> 15 ]

\* Variant: the plain mean of the four levels.
weightedScoreUnweighted(levels) ==
    IF \E key \in DOMAIN WEIGHTS : levels[key] = NotANumber THEN NotANumber
    ELSE (levels.soilMoisture + levels.slopeAngle + levels.rainfall24h
          + levels.groundVibration) * (WeightScale \div 4)

\* Object.entries(WEIGHTS).reduce((total, [key, weight]) => total + levels[key] * weight, 0)
weightedScore(levels) ==
    IF \E key \in DOMAIN WEIGHTS : levels[key] = NotANumber THEN NotANumber
    ELSE levels.soilMoisture * WEIGHTS.soilMoisture
         + levels.slopeAngle * WEIGHTS.slopeAngle
         + levels.rainfall24h * WEIGHTS.rainfall24h
         + levels.groundVibration * WEIGHTS.groundVibration

ProbScale == LevelScale * WeightScale * 100

\* Variant: no 0.18 floor.
probabilityWithoutFloor(snapshot) ==
    LET score == weightedScore(riskLevels(snapshot))
    IN  IF score = NotANumber THEN NotANumber
        ELSE clamp(92 * score, 0, ProbScale)

\* probability = clamp(0.18 + weightedScore * 0.92, 0, 1), times ProbScale.
probabilityOf(snapshot) ==
    LET score == weightedScore(riskLevels(snapshot))
    IN  IF score = NotANumber THEN NotANumber
        ELSE clamp(18 * LevelScale * WeightScale + 92 * score, 0, ProbScale)

\* probability >= hundredths / 100 (false for NaN)
ProbAtLeast(p, hundredths) == p # NotANumber /\ p * 100 >= hundredths * ProbScale

\* probability < hundredths / 100 (false for NaN)
ProbBelow(p, hundredths) == p # NotANumber /\ p * 100 < hundredths * ProbScale

\* Variant: the thresholds as exclusive lower bounds.
describeBandExclusive(score) ==
    LET Above(hundredths) ==
            score # NotANumber /\ score * 100 > hundredths * ProbScale
    IN  IF Above(80) THEN "danger"
        ELSE IF Above(65) THEN "high"
        ELSE IF Above(45) THEN "elevated"
        ELSE IF Above(28) THEN "caution"
        ELSE "stable"

\* describeBand: the first threshold, from the top, that the score reaches.
describeBand(score) ==
    IF ProbAtLeast(score, 80) THEN "danger"
    ELSE IF ProbAtLeast(score, 65) THEN "high"
    ELSE IF ProbAtLeast(score, 45) THEN "elevated"
    ELSE IF ProbAtLeast(score, 28) THEN "caution"
    ELSE "stable"

\* distanceMeters = clamp(asNumber(globalData?.khoang_cach, 0), 0, MAX_SAFE_INTEGER)
distanceOf(data) == clamp(asNumber(data.khoang_cach, 0), 0, DistanceCeiling)

\* getStationCoordinates(data) !== null: toa_do.x and toa_do.y are numbers.
getStationCoordinates(data) == data.toa_do

\* ------------------------------------------------ the data side of the screen
\* The part of the component state the data effects read and write.
Data == [ globalData |-> globalData, sensorSnapshot |-> sensorSnapshot,
          proximityNotified |-> proximityNotified, pushSentRef |-> pushSentRef,
          notif |-> notif, geocodeFetchedRef |-> geocodeFetchedRef,
          rainfallFetchedRef |-> rainfallFetchedRef, geocodeReq |-> geocodeReq,
          rainReq |-> rainReq, hist |-> hist ]

CommitData(D) ==
    /\ globalData' = D.globalData
    /\ sensorSnapshot' = D.sensorSnapshot
    /\ proximityNotified' = D.proximityNotified
    /\ pushSentRef' = D.pushSentRef
    /\ notif' = D.notif
    /\ geocodeFetchedRef' = D.geocodeFetchedRef
    /\ rainfallFetchedRef' = D.rainfallFetchedRef
    /\ geocodeReq' = D.geocodeReq
    /\ rainReq' = D.rainReq
    /\ hist' = D.hist

Dispatched(D) == D.notif.pushSends + D.notif.localNotifications

\* The snapshot effect [globalData]:
\* setSensorSnapshot(prev => ({ ...base, rainfall24h: prev.rainfall24h ?? base.rainfall24h })).
\* prev.rainfall24h is a number in every snapshot the component builds
\* (createSnapshotFromData and loadRainfall store numbers), so `??` keeps it.
SnapshotEffect(D) ==
    LET base == createSnapshotFromData(D.globalData)
    IN  [ D EXCEPT !.sensorSnapshot =
                       [ base EXCEPT !.rainfall24h = D.sensorSnapshot.rainfall24h ] ]

\* Variant of the proximity effect whose latch re-arms as soon as the
\* distance is above PROXIMITY_THRESHOLD_METERS, without the 20 m margin.
ProximityEffectWithoutMargin(D) ==
    LET distanceMeters == distanceOf(D.globalData)
        D1 == IF distanceMeters <= PROXIMITY_THRESHOLD_METERS /\ ~D.proximityNotified
              THEN [ D EXCEPT !.proximityNotified = TRUE,
                              !.notif.proximityAlerts = @ + 1 ]
              ELSE D
    IN  IF distanceMeters > PROXIMITY_THRESHOLD_METERS
        THEN [ D1 EXCEPT !.proximityNotified = FALSE ]
        ELSE D1

\* Variant of the push-trigger effect whose latch re-arms as soon as the
\* probability is below PUSH_RISK_THRESHOLD, without the 0.1 margin.
PushEffectWithoutMargin(D, notificationsEnabled, token) ==
    IF ~notificationsEnabled THEN D
    ELSE LET probability == probabilityOf(D.sensorSnapshot)
             isClose == distanceOf(D.globalData) <= PROXIMITY_THRESHOLD_METERS
             isHighRisk == ProbAtLeast(probability, PUSH_RISK_THRESHOLD)
             readyForPush == isClose /\ isHighRisk /\ ~D.pushSentRef
             D1 == IF ~readyForPush THEN D
                   ELSE IF token
                        THEN [ D EXCEPT !.pushSentRef = TRUE, !.notif.pushSends = @ + 1,
                                        !.notif.sendsInFlight = @ + 1 ]
                        ELSE [ D EXCEPT !.pushSentRef = TRUE,
                                        !.notif.localNotifications = @ + 1,
                                        !.notif.sendsInFlight = @ + 1 ]
         IN  IF (~isClose \/ ProbBelow(probability, PUSH_RISK_THRESHOLD))
                /\ D1.pushSentRef
             THEN [ D1 EXCEPT !.pushSentRef = FALSE ]
             ELSE D1

\* Variant of the push-trigger effect that dispatches only with a cached
\* push token and has no local-notification fallback.
PushEffectNeedingToken(D, notificationsEnabled, token) ==
    IF ~notificationsEnabled THEN D
    ELSE LET probability == probabilityOf(D.sensorSnapshot)
             isClose == distanceOf(D.globalData) <= PROXIMITY_THRESHOLD_METERS
             isHighRisk == ProbAtLeast(probability, PUSH_RISK_THRESHOLD)
             readyForPush == isClose /\ isHighRisk /\ ~D.pushSentRef /\ token
             D1 == IF ~readyForPush THEN D
                   ELSE [ D EXCEPT !.pushSentRef = TRUE, !.notif.pushSends = @ + 1,
                                        !.notif.sendsInFlight = @ + 1 ]
         IN  IF (~isClose \/ ProbBelow(probability, PUSH_RISK_THRESHOLD - PushRearmMargin))
                /\ D1.pushSentRef
             THEN [ D1 EXCEPT !.pushSentRef = FALSE ]
             ELSE D1

\* Variant of the push-trigger effect that fires on high risk alone, without
\* the distance test.
PushEffectIgnoringDistance(D, notificationsEnabled, token) ==
    IF ~notificationsEnabled THEN D
    ELSE LET probability == probabilityOf(D.sensorSnapshot)
             isClose == distanceOf(D.globalData) <= PROXIMITY_THRESHOLD_METERS
             isHighRisk == ProbAtLeast(probability, PUSH_RISK_THRESHOLD)
             readyForPush == isHighRisk /\ ~D.pushSentRef
             D1 == IF ~readyForPush THEN D
                   ELSE IF token
                        THEN [ D EXCEPT !.pushSentRef = TRUE, !.notif.pushSends = @ + 1,
                                        !.notif.sendsInFlight = @ + 1 ]
                        ELSE [ D EXCEPT !.pushSentRef = TRUE,
                                        !.notif.localNotifications = @ + 1,
                                        !.notif.sendsInFlight = @ + 1 ]
         IN  IF (~isClose \/ ProbBelow(probability, PUSH_RISK_THRESHOLD - PushRearmMargin))
                /\ D1.pushSentRef
             THEN [ D1 EXCEPT !.pushSentRef = FALSE ]
             ELSE D1

\* The proximity effect [copy, distanceLabel, distanceMeters].
ProximityEffect(D) ==
    LET distanceMeters == distanceOf(D.globalData)
        D1 == IF distanceMeters <= PROXIMITY_THRESHOLD_METERS /\ ~D.proximityNotified
              THEN [ D EXCEPT !.proximityNotified = TRUE,
                              !.notif.proximityAlerts = @ + 1 ]
              ELSE D
    IN  IF distanceMeters > PROXIMITY_THRESHOLD_METERS + ProximityRearmMargin
        THEN [ D1 EXCEPT !.proximityNotified = FALSE ]
        ELSE D1

\* The push-trigger effect [copy.common, distanceMeters, ensureConnectivity,
\* expoPushToken, notificationsEnabled, probability, ...].
PushEffect(D, notificationsEnabled, token) ==
    IF ~notificationsEnabled THEN D
    ELSE LET probability == probabilityOf(D.sensorSnapshot)
             isClose == distanceOf(D.globalData) <= PROXIMITY_THRESHOLD_METERS
             isHighRisk == ProbAtLeast(probability, PUSH_RISK_THRESHOLD)
             readyForPush == isClose /\ isHighRisk /\ ~D.pushSentRef
             D1 == IF ~readyForPush THEN D
                   ELSE IF token
                        THEN [ D EXCEPT !.pushSentRef = TRUE, !.notif.pushSends = @ + 1,
                                        !.notif.sendsInFlight = @ + 1 ]
                        ELSE [ D EXCEPT !.pushSentRef = TRUE,
                                        !.notif.localNotifications = @ + 1,
                                        !.notif.sendsInFlight = @ + 1 ]
         IN  IF (~isClose \/ ProbBelow(probability, PUSH_RISK_THRESHOLD - PushRearmMargin))
                /\ D1.pushSentRef
             THEN [ D1 EXCEPT !.pushSentRef = FALSE ]
             ELSE D1

\* What one evaluation of the proximity effect did, added to the history.
ProximityObserver(B, A) ==
    LET d == distanceOf(B.globalData)
        raised == A.notif.proximityAlerts - B.notif.proximityAlerts
        h == B.hist
    IN  [ h EXCEPT
            !.proxRefire = @ \/ (raised > 0 /\ h.proxFired /\ ~h.proxFarSeen),
            !.proxMissed = @ \/ (d <= 100 /\ ~B.proximityNotified /\ raised # 1),
            !.proxStray  = @ \/ (raised > 0 /\ (d > 100 \/ B.proximityNotified)),
            !.proxBand   = @ \/ (d > 100 /\ d <= 120
                                 /\ (raised > 0 \/ A.proximityNotified # B.proximityNotified)),
            !.proxFired  = @ \/ raised > 0,
            !.proxFarSeen = IF raised > 0 THEN FALSE ELSE (@ \/ d > 120) ]

\* What one evaluation of the push-trigger effect did, added to the history.
PushObserver(B, A, notificationsEnabled) ==
    LET d == distanceOf(B.globalData)
        p == probabilityOf(B.sensorSnapshot)
        fired == Dispatched(A) - Dispatched(B)
        due == d <= 100 /\ ProbAtLeast(p, 70) /\ ~B.pushSentRef
        clear == d > 100 \/ ProbBelow(p, 60)
        h == B.hist
    IN  [ h EXCEPT
            !.pushRefire = @ \/ (fired > 0 /\ h.pushFired /\ ~h.pushClearSeen),
            !.pushBoth   = @ \/ (fired > 0 /\ ~A.pushSentRef),
            !.pushRearmInBand = @ \/ (B.pushSentRef /\ ~A.pushSentRef /\ ~clear),
            !.pushMissed = @ \/ (due /\ ~(fired = 1 /\ A.pushSentRef)),
            !.pushMissedEnabled =
                 @ \/ (notificationsEnabled /\ due /\ ~(fired = 1 /\ A.pushSentRef)),
            !.pushSkipped = @ \/ (~notificationsEnabled /\ due),
            !.pushStray  = @ \/ (fired > 0 /\ ~(d <= 100 /\ ProbAtLeast(p, 70))),
            !.pushFired  = @ \/ fired > 0,
            !.pushKeptInBand = @ \/ (notificationsEnabled /\ B.pushSentRef /\ A.pushSentRef
                                     /\ d <= 100 /\ ~ProbAtLeast(p, 70)),
            !.pushClearSeen = IF fired > 0 THEN FALSE
                              ELSE (@ \/ (notificationsEnabled /\ clear)) ]

ProximityEvaluation(D) ==
    LET A == ProximityEffect(D) IN [ A EXCEPT !.hist = ProximityObserver(D, A) ]

PushEvaluation(D, notificationsEnabled, token) ==
    LET A == PushEffect(D, notificationsEnabled, token)
    IN  [ A EXCEPT !.hist = PushObserver(D, A, notificationsEnabled) ]

NoRequest == [ state |-> "none", aborted |-> FALSE, cleanup |-> FALSE, endpoint |-> 0 ]

\* controller.abort() in the cleanup an effect run returned, if it returned one.
AbortBy(req) == IF req.cleanup THEN [ req EXCEPT !.aborted = TRUE, !.cleanup = FALSE ] ELSE req

\* The geocode effect [globalData], after the cleanup of its previous run.
GeocodeEffect(D, apiKey) ==
    LET D0 == [ D EXCEPT !.geocodeReq = AbortBy(@) ]
    IN  IF getStationCoordinates(D0.globalData) \/ D0.geocodeFetchedRef THEN D0
        ELSE IF ~apiKey \/ ~D0.globalData.query THEN D0
        ELSE [ D0 EXCEPT !.geocodeFetchedRef = TRUE,
                         !.geocodeReq = [ state |-> "pending", aborted |-> FALSE,
                                          cleanup |-> TRUE, endpoint |-> 1 ] ]

\* The rainfall effect [globalData], after the cleanup of its previous run.
RainfallEffect(D, apiKey) ==
    LET D0 == [ D EXCEPT !.rainReq = AbortBy(@) ]
    IN  IF ~apiKey THEN D0
        ELSE IF ~getStationCoordinates(D0.globalData) THEN D0
        ELSE IF D0.rainfallFetchedRef THEN D0
        ELSE [ D0 EXCEPT !.rainfallFetchedRef = TRUE,
                         !.rainReq = [ state |-> "pending", aborted |-> FALSE,
                                       cleanup |-> TRUE, endpoint |-> 1 ] ]

\* setGlobalData(g) on the mounted screen: the render with the new station
\* data runs the geocode, rainfall, proximity and push effects and the
\* snapshot effect; the snapshot it stores causes a second render, in which
\* the push effect sees the new probability.
SetGlobalData(D, g, apiKey, notificationsEnabled, token) ==
    LET D0 == [ D EXCEPT !.globalData = g ]
        D1 == RainfallEffect(GeocodeEffect(D0, apiKey), apiKey)
        D2 == PushEvaluation(ProximityEvaluation(D1), notificationsEnabled, token)
        D3 == SnapshotEffect(D2)
    IN  PushEvaluation(D3, notificationsEnabled, token)

\* setSensorSnapshot(prev => ({ ...prev, rainfall24h: rainfallMm })) on the
\* mounted screen, and the push effect of the render it causes.
SetRainfall(D, rainfallMm, notificationsEnabled, token) ==
    PushEvaluation([ D EXCEPT !.sensorSnapshot.rainfall24h = rainfallMm,
                              !.hist.rainfallLive = TRUE ],
                   notificationsEnabled, token)

\* The effects that depend on copy (settings.lang), data side.
LanguageEffects(D, notificationsEnabled, token) ==
    PushEvaluation(ProximityEvaluation(D), notificationsEnabled, token)

\* ------------------------------------------------- the settings provider
\* The part of the SettingsProvider state its effects read and write.
Prov == [ settings |-> settings, storageHydrated |-> storageHydrated,
          idEnsured |-> idEnsured, cloudReqs |-> cloudReqs ]

CommitProvider(P) ==
    /\ settings' = P.settings
    /\ storageHydrated' = P.storageHydrated
    /\ idEnsured' = P.idEnsured
    /\ cloudReqs' = P.cloudReqs

\* settings.id && !settings.id.includes("{id}")
ValidId(id) == id # "" /\ id # "{id}"

generateLocalId == "local"

\* The loadCloudSettings effect [settings.id]: the cleanup of the previous
\* run aborts its controller, then a valid id starts a read of devices/<id>.
CloudEffect(P) ==
    LET reqs == [ k \in 1..Len(P.cloudReqs) |-> AbortBy(P.cloudReqs[k]) ]
    IN  IF ValidId(P.settings.id)
        THEN [ P EXCEPT !.cloudReqs =
                 Append(reqs, [ state |-> "pending", aborted |-> FALSE, cleanup |-> TRUE,
                                id |-> P.settings.id ]) ]
        ELSE [ P EXCEPT !.cloudReqs = reqs ]

\* Variant: the id effect does not wait for the stored settings.
IdEnsureEffectBeforeHydration(P) ==
    IF P.idEnsured THEN P
    ELSE IF ValidId(P.settings.id) THEN [ P EXCEPT !.idEnsured = TRUE ]
    ELSE CloudEffect([ P EXCEPT !.settings.id = generateLocalId, !.idEnsured = TRUE ])

\* The id effect [storageHydrated, settings.id]; the id it generates is a
\* change of settings.id, so the loadCloudSettings effect runs again.
IdEnsureEffect(P) ==
    IF P.idEnsured \/ ~P.storageHydrated THEN P
    ELSE IF ValidId(P.settings.id) THEN [ P EXCEPT !.idEnsured = TRUE ]
    ELSE CloudEffect([ P EXCEPT !.settings.id = generateLocalId, !.idEnsured = TRUE ])

\* setSettings(prev => ({ ...prev, ...patch })) with a patch that holds an id,
\* and the effects of the render it causes.
SetSettings(P, patch) ==
    IF patch.id = P.settings.id THEN P
    ELSE IdEnsureEffect(CloudEffect([ P EXCEPT !.settings.id = patch.id ]))

\* ------------------------------------------------------- the session state
NewRun == [ pc |-> "ensureConnectivity", cancelled |-> FALSE,
            accelSub |-> "null", locSub |-> "null",
            hasNet |-> "pending", hasPermission |-> "pending",
            timerArmed |-> FALSE ]

UnbornRun == [ NewRun EXCEPT !.pc = "unborn" ]

\* The part of the component state the ground-session effect reads and writes.
Sess == [ groundRunning |-> groundRunning, groundTimerRef |-> groundTimerRef,
          timers |-> timers, runs |-> runs, curRun |-> curRun, nRuns |-> nRuns ]

Commit(S) ==
    /\ groundRunning' = S.groundRunning
    /\ groundTimerRef' = S.groundTimerRef
    /\ timers' = S.timers
    /\ runs' = S.runs
    /\ curRun' = S.curRun
    /\ nRuns' = S.nRuns

\* if (groundTimerRef.current) { clearTimeout(...); groundTimerRef.current = null; }
ClearGroundTimer(S) ==
    IF S.groundTimerRef = NoRun THEN S
    ELSE [ S EXCEPT !.timers = @ \ {S.groundTimerRef}, !.groundTimerRef = NoRun ]

Removed(sub) == IF sub = "active" THEN "removed" ELSE sub

\* The cleanup the effect returned (none when the effect ran with
\* groundRunning false): cancelled = true; accelSub?.remove();
\* locSub?.remove(); clear the timer.
GroundCleanup(S) ==
    IF S.curRun = NoRun THEN S
    ELSE LET r == S.curRun
             T == [ S EXCEPT !.runs[r].cancelled = TRUE,
                             !.runs[r].accelSub = Removed(@),
                             !.runs[r].locSub = Removed(@),
                             !.curRun = NoRun ]
         IN  ClearGroundTimer(T)

\* The effect body: with groundRunning false it clears the timer and returns
\* no cleanup; otherwise it creates the closure variables and calls
\* startRecording(), which suspends at `await ensureConnectivity()`.
GroundEffect(S) ==
    IF ~S.groundRunning THEN ClearGroundTimer(S)
    ELSE LET r == S.nRuns + 1
         IN  [ S EXCEPT !.runs[r] = NewRun, !.curRun = r, !.nRuns = r ]

\* A change of one of the effect's dependencies [copy, ensureConnectivity,
\* groundRunning]: React runs the previous cleanup, then the effect body.
GroundEffectRerun(S) == GroundEffect(GroundCleanup(S))

\* setGroundRunning(v): no re-render when the value is unchanged or the
\* component is gone.
SetGroundRunning(S, v) ==
    IF phase # "mounted" \/ S.groundRunning = v THEN S
    ELSE GroundEffectRerun([ S EXCEPT !.groundRunning = v ])

\* ------------------------------------------------------------------ actions
WithinCaps(D) ==
    /\ D.notif.proximityAlerts <= MaxNotifications
    /\ D.notif.pushSends <= MaxNotifications
    /\ D.notif.localNotifications <= MaxNotifications

\* The first render of the application: the effects of the screen, in the
\* order they are declared (snapshot, geocode, loadGlobal, rainfall,
\* proximity, push registration, push trigger, ground session), then those
\* of the SettingsProvider above it (hydration, loadCloudSettings, id).
Mount ==
    /\ phase = "init"
    /\ phase' = "mounted"
    /\ LET D1 == RainfallEffect(GeocodeEffect(SnapshotEffect(Data), env.apiKey), env.apiKey)
           D2 == PushEvaluation(ProximityEvaluation(D1), settings.notifications, expoPushToken)
       IN  CommitData(D2)
    /\ globalReq' = [ state |-> "pending", aborted |-> FALSE, cleanup |-> TRUE,
                      endpoint |-> 1 ]
    /\ pushRegistration' = settings.notifications
    /\ Commit(GroundEffect(Sess))
    /\ hydration' = "loading"
    /\ CommitProvider(IdEnsureEffect(CloudEffect(Prov)))
    /\ UNCHANGED << pendingStarts, groundSamples, groundPoints, groundTrust, nSamples,
                    env, monitoringVars, mapVars, expoPushToken >>

\* Variant: the stop branch also clears both buffers and the trust score.
HandleToggleGroundCheckStopClearing ==
    /\ phase = "mounted"
    /\ groundRunning
    /\ Commit(SetGroundRunning(Sess, FALSE))
    /\ groundSamples' = << >>
    /\ groundPoints' = << >>
    /\ groundTrust' = NullTrust
    /\ UNCHANGED << phase, pendingStarts, nSamples >>
    /\ UNCHANGED << settings, env, monitoringVars, mapVars, dataVars, otherDataVars, providerVars >>

\* handleToggleGroundCheck while groundRunning: setGroundRunning(false).
HandleToggleGroundCheckStop ==
    /\ phase = "mounted"
    /\ groundRunning
    /\ Commit(SetGroundRunning(Sess, FALSE))
    /\ UNCHANGED << phase, pendingStarts, groundSamples, groundPoints, groundTrust, nSamples >>
    /\ UNCHANGED << settings, env, monitoringVars, mapVars, dataVars, otherDataVars, providerVars >>

\* handleToggleGroundCheck while not running: suspends at
\* `await ensureConnectivity()`.
HandleToggleGroundCheckStart ==
    /\ phase = "mounted"
    /\ ~groundRunning
    /\ pendingStarts < MaxPendingStarts
    /\ pendingStarts' = pendingStarts + 1
    /\ UNCHANGED << phase, groundRunning, groundTimerRef, timers, runs, curRun, nRuns,
                    groundSamples, groundPoints, groundTrust, nSamples >>
    /\ UNCHANGED << settings, env, monitoringVars, mapVars, dataVars, otherDataVars, providerVars >>

\* ... and resumes: if (!ok) return; clear both buffers and the trust score,
\* setGroundRunning(true).
HandleToggleGroundCheckResume(ok) ==
    /\ pendingStarts > 0
    /\ pendingStarts' = pendingStarts - 1
    /\ IF ok /\ phase = "mounted"
       THEN /\ (~groundRunning => nRuns < MaxRuns)
            /\ groundSamples' = << >>
            /\ groundPoints' = << >>
            /\ groundTrust' = NullTrust
            /\ Commit(SetGroundRunning(Sess, TRUE))
       ELSE UNCHANGED << groundRunning, groundTimerRef, timers, runs, curRun, nRuns,
                         groundSamples, groundPoints, groundTrust >>
    /\ UNCHANGED << phase, nSamples >>
    /\ UNCHANGED << settings, env, monitoringVars, mapVars, dataVars, otherDataVars, providerVars >>

\* startRecording resumes from `await ensureConnectivity()`.
StartRecordingAfterConnectivity(r, hasNet) ==
    /\ runs[r].pc = "ensureConnectivity"
    /\ LET S == [ Sess EXCEPT !.runs[r].hasNet = IF hasNet THEN "yes" ELSE "no" ]
       IN  IF ~hasNet \/ S.runs[r].cancelled
           THEN Commit(SetGroundRunning([ S EXCEPT !.runs[r].pc = "returned" ], FALSE))
           ELSE Commit([ S EXCEPT !.runs[r].pc = "requestLocationPermission" ])
    /\ UNCHANGED << phase, pendingStarts, groundSamples, groundPoints, groundTrust, nSamples >>
    /\ UNCHANGED << settings, env, monitoringVars, mapVars, dataVars, otherDataVars, providerVars >>

\* Variant: the result of the permission request is not checked.
StartRecordingIgnoringPermission(r, hasPermission, accelOk) ==
    /\ runs[r].pc = "requestLocationPermission"
    /\ LET S == [ Sess EXCEPT !.runs[r].hasPermission =
                                  IF hasPermission THEN "yes" ELSE "no" ]
       IN  IF S.runs[r].cancelled
           THEN Commit(SetGroundRunning([ S EXCEPT !.runs[r].pc = "returned" ], FALSE))
           ELSE Commit([ S EXCEPT !.runs[r].pc = "watchPositionAsync",
                                  !.runs[r].timerArmed = TRUE,
                                  !.runs[r].accelSub = IF accelOk THEN "active" ELSE "null",
                                  !.groundTimerRef = r,
                                  !.timers = @ \cup {r} ])
    /\ UNCHANGED << phase, pendingStarts, groundSamples, groundPoints, groundTrust, nSamples >>
    /\ UNCHANGED << settings, env, monitoringVars, mapVars, dataVars, otherDataVars, providerVars >>

\* Variant of startRecording that starts both streams without arming the
\* 5-minute timer.
StartRecordingWithoutTimer(r, hasPermission, accelOk) ==
    /\ runs[r].pc = "requestLocationPermission"
    /\ LET S == [ Sess EXCEPT !.runs[r].hasPermission =
                                  IF hasPermission THEN "yes" ELSE "no" ]
       IN  IF ~hasPermission \/ S.runs[r].cancelled
           THEN Commit(SetGroundRunning([ S EXCEPT !.runs[r].pc = "returned" ], FALSE))
           ELSE Commit([ S EXCEPT !.runs[r].pc = "watchPositionAsync",
                                  !.runs[r].accelSub = IF accelOk THEN "active" ELSE "null" ])
    /\ UNCHANGED << phase, pendingStarts, groundSamples, groundPoints, groundTrust, nSamples >>
    /\ UNCHANGED << settings, env, monitoringVars, mapVars, dataVars, otherDataVars, providerVars >>

\* startRecording resumes from `await requestLocationPermission()`; when it
\* goes on it arms the 5-minute timer, adds the accelerometer listener (which
\* may throw) and suspends at `await Location.watchPositionAsync(...)`.
StartRecordingAfterPermission(r, hasPermission, accelOk) ==
    /\ runs[r].pc = "requestLocationPermission"
    /\ LET S == [ Sess EXCEPT !.runs[r].hasPermission =
                                  IF hasPermission THEN "yes" ELSE "no" ]
       IN  IF ~hasPermission \/ S.runs[r].cancelled
           THEN Commit(SetGroundRunning([ S EXCEPT !.runs[r].pc = "returned" ], FALSE))
           ELSE Commit([ S EXCEPT !.runs[r].pc = "watchPositionAsync",
                                  !.runs[r].timerArmed = TRUE,
                                  !.runs[r].accelSub = IF accelOk THEN "active" ELSE "null",
                                  !.groundTimerRef = r,
                                  !.timers = @ \cup {r} ])
    /\ UNCHANGED << phase, pendingStarts, groundSamples, groundPoints, groundTrust, nSamples >>
    /\ UNCHANGED << settings, env, monitoringVars, mapVars, dataVars, otherDataVars, providerVars >>

\* Variant of startRecording that gives the session up when the location
\* watch cannot be started.
StartRecordingAfterWatchAborting(r, locOk) ==
    /\ runs[r].pc = "watchPositionAsync"
    /\ LET S == [ Sess EXCEPT !.runs[r].pc = "returned",
                              !.runs[r].locSub = IF locOk THEN "active" ELSE "null" ]
       IN  IF locOk THEN Commit(S) ELSE Commit(SetGroundRunning(S, FALSE))
    /\ UNCHANGED << phase, pendingStarts, groundSamples, groundPoints, groundTrust, nSamples >>
    /\ UNCHANGED << settings, env, monitoringVars, mapVars, dataVars, otherDataVars, providerVars >>

\* startRecording resumes from `await Location.watchPositionAsync(...)`:
\* locSub is assigned when it resolved; a rejection is only logged.
StartRecordingAfterWatch(r, locOk) ==
    /\ runs[r].pc = "watchPositionAsync"
    /\ Commit([ Sess EXCEPT !.runs[r].pc = "returned",
                            !.runs[r].locSub = IF locOk THEN "active" ELSE "null" ])
    /\ UNCHANGED << phase, pendingStarts, groundSamples, groundPoints, groundTrust, nSamples >>
    /\ UNCHANGED << settings, env, monitoringVars, mapVars, dataVars, otherDataVars, providerVars >>

\* The 5-minute timeout fires: setGroundRunning(false).
GroundTimerFires(r) ==
    /\ r \in timers
    /\ Commit(SetGroundRunning([ Sess EXCEPT !.timers = @ \ {r} ], FALSE))
    /\ UNCHANGED << phase, pendingStarts, groundSamples, groundPoints, groundTrust, nSamples >>
    /\ UNCHANGED << settings, env, monitoringVars, mapVars, dataVars, otherDataVars, providerVars >>

\* recordAccelerometer: if (cancelled) return;
\* setGroundSamples(prev => [...prev.slice(-300), sample]); the trust effect
\* then stores groundTrustScore.
recordAccelerometer(r, reading) ==
    /\ runs[r].accelSub = "active"
    /\ nSamples' = nSamples + 1
    /\ IF runs[r].cancelled
       THEN UNCHANGED << groundSamples, groundTrust >>
       ELSE LET sample == [ ax |-> reading[1], ay |-> reading[2], az |-> reading[3],
                            n |-> nSamples + 1 ]
                next   == Append(SliceLast(groundSamples, GroundSliceWindow), sample)
            IN  /\ groundSamples' = next
                /\ groundTrust' = groundTrustScore(next)
    /\ UNCHANGED << phase, groundRunning, groundTimerRef, timers, runs, curRun, nRuns,
                    pendingStarts, groundPoints >>
    /\ UNCHANGED << settings, env, monitoringVars, mapVars, dataVars, otherDataVars, providerVars >>

\* recordLocation: if (cancelled) return; setGroundPoints(prev => [...prev, point]).
recordLocation(r) ==
    /\ runs[r].locSub = "active"
    /\ ~runs[r].cancelled
    /\ Len(groundPoints) < MaxPoints
    /\ groundPoints' = Append(groundPoints, r)
    /\ UNCHANGED << phase, groundRunning, groundTimerRef, timers, runs, curRun, nRuns,
                    pendingStarts, groundSamples, groundTrust, nSamples >>
    /\ UNCHANGED << settings, env, monitoringVars, mapVars, dataVars, otherDataVars, providerVars >>

OtherLang(lang) == IF lang = "vi" THEN "en" ELSE "vi"

\* settings.lang changes: copy and ensureConnectivity get new identities, so
\* the ground-session effect is cleaned up and run again, the proximity and
\* push effects are evaluated again and the push registration effect runs.
LanguageChange ==
    /\ phase = "mounted"
    /\ (groundRunning => nRuns < MaxRuns)
    /\ settings' = [ settings EXCEPT !.lang = OtherLang(@) ]
    /\ Commit(GroundEffectRerun(Sess))
    /\ LET D == LanguageEffects(Data, settings.notifications, expoPushToken)
       IN  WithinCaps(D) /\ CommitData(D)
    /\ pushRegistration' = (pushRegistration \/ settings.notifications)
    /\ UNCHANGED << phase, pendingStarts, groundSamples, groundPoints, groundTrust, nSamples,
                    env, monitoringVars, mapVars, expoPushToken, globalReq, providerVars >>

\* A render with new station data: setGlobalData(g).
GlobalDataUpdate(g) ==
    /\ phase = "mounted"
    /\ LET D == SetGlobalData(Data, g, env.apiKey, settings.notifications, expoPushToken)
       IN  WithinCaps(D) /\ CommitData(D)
    /\ UNCHANGED << phase, sessionVars, settings, env, monitoringVars, mapVars, otherDataVars, providerVars >>

\* updateSettings({ notifications: value }) from the settings screen: the
\* push registration effect and the push-trigger effect run again.
NotificationsToggle ==
    /\ phase = "mounted"
    /\ settings' = [ settings EXCEPT !.notifications = ~@ ]
    /\ pushRegistration' = (pushRegistration \/ ~settings.notifications)
    /\ LET D == PushEvaluation(Data, ~settings.notifications, expoPushToken)
       IN  WithinCaps(D) /\ CommitData(D)
    /\ UNCHANGED << phase, sessionVars, env, monitoringVars, mapVars, expoPushToken, globalReq, providerVars >>

\* registerForPushNotificationsAsync() resolves:
\* if (token) setExpoPushToken(token), and the push effect sees the token.
PushTokenArrives(token) ==
    /\ pushRegistration
    /\ pushRegistration' = FALSE
    /\ IF token /\ ~expoPushToken /\ phase = "mounted"
       THEN /\ expoPushToken' = TRUE
            /\ LET D == PushEvaluation(Data, settings.notifications, TRUE)
               IN  WithinCaps(D) /\ CommitData(D)
       ELSE UNCHANGED << expoPushToken, dataVars >>
    /\ UNCHANGED << phase, sessionVars, settings, env, monitoringVars, mapVars, globalReq, providerVars >>

\* Variant of the send continuation that tries the send again when it
\* failed.
SendSettlesRetrying(ok) ==
    /\ notif.sendsInFlight > 0
    /\ notif' = IF ok THEN [ notif EXCEPT !.sendsInFlight = @ - 1 ]
                ELSE [ notif EXCEPT !.sendWarnings = @ + 1,
                                    !.pushSends = @ + 1 ]
    /\ notif'.pushSends <= MaxNotifications
    /\ UNCHANGED << phase, sessionVars, settings, env, monitoringVars, mapVars, globalData, sensorSnapshot,
                    proximityNotified, pushSentRef, geocodeFetchedRef, rainfallFetchedRef,
                    geocodeReq, rainReq, hist, otherDataVars, providerVars >>

\* sendPushNotification / presentLocalNotificationAsync resume after their
\* await: a rejection is caught and reported with console.warn.
SendSettles(ok) ==
    /\ notif.sendsInFlight > 0
    /\ notif' = IF ok THEN [ notif EXCEPT !.sendsInFlight = @ - 1 ]
                ELSE [ notif EXCEPT !.sendsInFlight = @ - 1,
                                    !.sendWarnings = @ + 1 ]
    /\ UNCHANGED << phase, sessionVars, settings, env, monitoringVars, mapVars, globalData, sensorSnapshot,
                    proximityNotified, pushSentRef, geocodeFetchedRef, rainfallFetchedRef,
                    geocodeReq, rainReq, hist, otherDataVars, providerVars >>

\* --------------------------------------------------------- the remote reads
RainEndpoints == 2

\* The rainfall a successful OpenWeather answer holds, in mm.
LiveRainfall == 120

\* fetch(url, { signal }): the promise rejects with an AbortError once the
\* signal is aborted, otherwise the service answers.
FetchOutcome(req, answer) == IF req.aborted THEN "abort" ELSE answer

\* fetchFirebaseJson(path, signal): null without a configured database, null
\* when the signal is aborted after the read, otherwise the node's value
\* (<< >> is null, << v >> the value v).
fetchFirebaseJson(configured, req, node) ==
    IF ~configured THEN << >>
    ELSE IF req.aborted THEN << >>
    ELSE node

\* What the settling of request req did, added to the history: a write of
\* its result after it was abandoned, or an available result dropped.
FetchObserver(h, req, kind, available, written) ==
    [ h EXCEPT !.staleWrite = @ \/ (req.aborted /\ written),
               !.dropped = IF req.aborted /\ available /\ ~written
                           THEN @ \cup { kind } ELSE @ ]

Written(B, A) == A.globalData # B.globalData \/ A.sensorSnapshot # B.sensorSnapshot

\* geocode() resumes after `await fetch(url, { signal: controller.signal })`.
GeocodeSettles ==
    /\ geocodeReq.state = "pending"
    /\ LET outcome == FetchOutcome(geocodeReq, env.geocode)
           D0 == [ Data EXCEPT !.geocodeReq.state = "settled" ]
           D1 == IF outcome = "coords"
                 THEN IF phase = "mounted"
                      THEN SetGlobalData(D0, [ D0.globalData EXCEPT !.toa_do = TRUE ],
                                         env.apiKey, settings.notifications, expoPushToken)
                      ELSE D0
                 ELSE IF outcome = "error"
                      THEN [ D0 EXCEPT !.geocodeFetchedRef = FALSE ]
                      ELSE D0
       IN  /\ WithinCaps(D1)
           /\ CommitData([ D1 EXCEPT !.hist = FetchObserver(@, geocodeReq, "geocode",
                                                 env.geocode = "coords", Written(Data, D1)) ])
    /\ UNCHANGED << phase, sessionVars, settings, env, monitoringVars, mapVars, otherDataVars, providerVars >>

\* The entries of a forecast answer read by the extractor: .slice(0, 8).
ForecastSlots == 8

\* The rain["3h"] values of the list of a forecast answer: 50 mm, none and
\* 70 mm, or the JSON numbers 1e999 and -1e999, which parse to Infinity and
\* -Infinity.
ForecastList(answer) ==
    IF answer = "overflow"
    THEN << Num(PositiveInfinity), Num(NegativeInfinity) >>
    ELSE << Num(50), Undefined, Num(70) >>

\* The rain["1h"] and rain["3h"] values of a current-weather answer.
CurrentRain(answer) ==
    IF answer = "overflow"
    THEN [ h1 |-> Undefined, h3 |-> Num(PositiveInfinity) ]
    ELSE [ h1 |-> Num(LiveRainfall), h3 |-> Undefined ]

RECURSIVE SumForecast(_, _)
\* list.slice(0, 8).reduce((total, entry) => total + (entry?.rain?.["3h"] ?? 0), 0),
\* over the first n entries.
SumForecast(list, n) ==
    IF n = 0 THEN 0
    ELSE JsAdd(SumForecast(list, n - 1),
               IF list[n].type = "undefined" THEN 0 ELSE list[n].v)

\* extractRainfallFromForecast3h, on an answer that holds a list
\* (<< x >> is the number x).
extractRainfallFromForecast3h(list) ==
    << SumForecast(list, IF Len(list) < ForecastSlots THEN Len(list) ELSE ForecastSlots) >>

\* extractRainfallFromCurrent
extractRainfallFromCurrent(rain) ==
    IF rain.h1.type = "number" THEN << rain.h1.v >>
    ELSE IF rain.h3.type = "number" THEN << rain.h3.v >>
    ELSE << 0 >>

\* endpoint.extractor(payload) for the answer of endpoint k; << >> is null.
ExtractRainfall(k, answer) ==
    IF answer \notin { "number", "overflow" } THEN << >>
    ELSE IF k = 1 THEN extractRainfallFromForecast3h(ForecastList(answer))
    ELSE extractRainfallFromCurrent(CurrentRain(answer))

\* loadRainfall() resumes after `await fetchRainfallFromEndpoint(endpoint)`:
\* a value with typeof "number" is stored, undefined (aborted) ends the
\* loop, null moves on to the next endpoint.
RainEndpointSettles ==
    /\ rainReq.state = "pending"
    /\ LET outcome == FetchOutcome(rainReq, env.rain[rainReq.endpoint])
           rainfallMm == ExtractRainfall(rainReq.endpoint, outcome)
           D0 == [ Data EXCEPT !.rainReq.state = "settled" ]
           D1 == IF rainfallMm # << >>
                 THEN IF phase = "mounted"
                      THEN SetRainfall(D0, rainfallMm[1], settings.notifications,
                                       expoPushToken)
                      ELSE D0
                 ELSE IF outcome = "abort" \/ rainReq.endpoint = RainEndpoints
                      THEN D0
                      ELSE [ Data EXCEPT !.rainReq.endpoint = @ + 1 ]
       IN  /\ WithinCaps(D1)
           /\ CommitData([ D1 EXCEPT !.hist = FetchObserver(@, rainReq, "rainfall",
                                                 env.rain[rainReq.endpoint]
                                                    \in { "number", "overflow" },
                                                 Written(Data, D1)) ])
    /\ UNCHANGED << phase, sessionVars, settings, env, monitoringVars, mapVars, otherDataVars, providerVars >>

\* loadGlobal() resumes after `await fetchFirebaseJson("global", controller.signal)`.
LoadGlobalResume ==
    /\ globalReq.state = "pending"
    /\ globalReq' = [ globalReq EXCEPT !.state = "settled" ]
    /\ LET remote == fetchFirebaseJson(env.firebase, globalReq, env.remote)
           D1 == IF remote # << >> /\ ~globalReq.aborted /\ phase = "mounted"
                 THEN [ SetGlobalData(Data, remote[1], env.apiKey, settings.notifications,
                                      expoPushToken)
                        EXCEPT !.hist.remoteApplied = TRUE ]
                 ELSE Data
       IN  /\ WithinCaps(D1)
           /\ CommitData([ D1 EXCEPT !.hist = FetchObserver(@, globalReq, "global",
                                                 env.firebase /\ env.remote # << >>,
                                                 Written(Data, D1)) ])
    /\ UNCHANGED << phase, sessionVars, settings, env, monitoringVars, mapVars, expoPushToken, pushRegistration,
                    providerVars >>

\* The hydration effect's load() resumes after the stored settings were read.
HydrationResume ==
    /\ hydration = "loading"
    /\ hydration' = "done"
    /\ LET merged == env.stored
           P1 == IF merged # << >>
                 THEN [ Prov EXCEPT !.settings.id = merged[1].id ]
                 ELSE Prov
           P2 == IF P1.settings.id # settings.id THEN CloudEffect(P1) ELSE P1
       IN  CommitProvider(IdEnsureEffect([ P2 EXCEPT !.storageHydrated = TRUE ]))
    /\ UNCHANGED << phase, sessionVars, env, monitoringVars, mapVars, dataVars, otherDataVars >>

\* The settings record the application keeps under devices/<id>.
CloudRecord(id) == IF env.cloud THEN << [ id |-> id ] >> ELSE << >>

\* Variant of loadCloudSettings that applies the answer whether or not its
\* controller was aborted.
LoadCloudSettingsResumeIgnoringAbort(k) ==
    /\ k \in 1..Len(cloudReqs)
    /\ cloudReqs[k].state = "pending"
    /\ LET req == cloudReqs[k]
           remoteSettings == IF env.firebase THEN CloudRecord(req.id) ELSE << >>
           P0 == [ Prov EXCEPT !.cloudReqs[k].state = "settled" ]
           P1 == IF remoteSettings # << >>
                 THEN SetSettings(P0, remoteSettings[1])
                 ELSE P0
       IN  /\ CommitProvider(P1)
           /\ hist' = FetchObserver(hist, req, "cloud",
                                    env.firebase /\ CloudRecord(req.id) # << >>,
                                    P1.settings # settings)
    /\ UNCHANGED << phase, sessionVars, env, monitoringVars, mapVars, globalData, sensorSnapshot, proximityNotified,
                    pushSentRef, notif, geocodeFetchedRef, rainfallFetchedRef, geocodeReq,
                    rainReq, otherDataVars, hydration >>

\* loadCloudSettings() of the k-th run resumes after
\* `await fetchFirebaseJson(`devices/${settings.id}`, controller.signal)`.
LoadCloudSettingsResume(k) ==
    /\ k \in 1..Len(cloudReqs)
    /\ cloudReqs[k].state = "pending"
    /\ LET req == cloudReqs[k]
           remoteSettings == fetchFirebaseJson(env.firebase, req, CloudRecord(req.id))
           P0 == [ Prov EXCEPT !.cloudReqs[k].state = "settled" ]
           P1 == IF remoteSettings # << >> /\ ~req.aborted
                 THEN SetSettings(P0, remoteSettings[1])
                 ELSE P0
       IN  /\ CommitProvider(P1)
           /\ hist' = FetchObserver(hist, req, "cloud",
                                    env.firebase /\ CloudRecord(req.id) # << >>,
                                    P1.settings # settings)
    /\ UNCHANGED << phase, sessionVars, env, monitoringVars, mapVars, globalData, sensorSnapshot, proximityNotified,
                    pushSentRef, notif, geocodeFetchedRef, rainfallFetchedRef, geocodeReq,
                    rainReq, otherDataVars, hydration >>

\* The screen unmounts: every effect's cleanup runs.
Unmount ==
    /\ phase = "mounted"
    /\ phase' = "unmounted"
    /\ Commit(GroundCleanup(Sess))
    /\ geocodeReq' = AbortBy(geocodeReq)
    /\ rainReq' = AbortBy(rainReq)
    /\ globalReq' = AbortBy(globalReq)
    /\ UNCHANGED << pendingStarts, groundSamples, groundPoints, groundTrust, nSamples,
                    settings, env, monitoringVars, mapVars, globalData, sensorSnapshot, proximityNotified,
                    pushSentRef, notif, geocodeFetchedRef, rainfallFetchedRef, hist,
                    expoPushToken, pushRegistration, providerVars >>

\* ---------------------------------------------------------- specifications
NoHistory ==
    [ proxFired |-> FALSE, proxFarSeen |-> FALSE, proxRefire |-> FALSE,
      proxMissed |-> FALSE, proxStray |-> FALSE, proxBand |-> FALSE,
      pushFired |-> FALSE, pushClearSeen |-> FALSE, pushRefire |-> FALSE,
      pushBoth |-> FALSE, pushRearmInBand |-> FALSE, pushMissed |-> FALSE,
      pushMissedEnabled |-> FALSE, pushSkipped |-> FALSE, pushStray |-> FALSE,
      pushKeptInBand |-> FALSE, rainfallLive |-> FALSE, remoteApplied |-> FALSE,
      staleWrite |-> FALSE, dropped |-> {} ]

\* A station payload (assets/data/global.json or the Firebase `global` node).
Payload(coords, soil, slope, vibration, rain, distance) ==
    [ toa_do |-> coords, query |-> TRUE, do_am_dat |-> soil, do_doc |-> slope,
      do_rung_dat |-> vibration, mua_24h |-> rain, khoang_cach |-> distance ]

defaultSettings == [ id |-> "{id}", lang |-> "vi", notifications |-> TRUE ]

\* No OpenWeather key and no Firebase configuration.
QuietEnv == [ apiKey |-> FALSE, geocode |-> "error", rain |-> << "error", "error" >>,
              firebase |-> FALSE, remote |-> << >>, cloud |-> FALSE, stored |-> << >> ]

FarSite == Payload(TRUE, Num(80), Num(35), Num(50), Num(150), Num(150))

\* The state when IndexScreen is constructed: e the environment, g the
\* bundled global.json, st the settings, token getCachedPushToken().
InitState(e, g, st, token) ==
    /\ phase = "init"
    /\ groundRunning = FALSE
    /\ groundTimerRef = NoRun
    /\ timers = {}
    /\ runs = [ r \in RunIds |-> UnbornRun ]
    /\ curRun = NoRun
    /\ nRuns = 0
    /\ pendingStarts = 0
    /\ groundSamples = << >>
    /\ groundPoints = << >>
    /\ groundTrust = NullTrust
    /\ nSamples = 0
    /\ settings = st
    /\ env = e
    /\ globalData = g
    /\ sensorSnapshot = createSnapshotFromData(g)
    /\ proximityNotified = FALSE
    /\ pushSentRef = FALSE
    /\ expoPushToken = token
    /\ pushRegistration = FALSE
    /\ notif = [ proximityAlerts |-> 0, pushSends |-> 0, localNotifications |-> 0,
                 sendsInFlight |-> 0, sendWarnings |-> 0 ]
    /\ geocodeFetchedRef = FALSE
    /\ rainfallFetchedRef = FALSE
    /\ geocodeReq = NoRequest
    /\ rainReq = NoRequest
    /\ globalReq = NoRequest
    /\ hist = NoHistory
    /\ storageHydrated = FALSE
    /\ idEnsured = FALSE
    /\ hydration = "idle"
    /\ cloudReqs = << >>
    /\ provinces = << >>
    /\ provincesReq = "idle"
    /\ isFetchingProvinces = FALSE
    /\ provinceError = FALSE
    /\ activeSite = NoSite
    /\ locationQuery = NoSite
    /\ activeCoords = NoCoords
    /\ locationStatus = "idle"
    /\ isResolvingSelection = FALSE
    /\ hasAttemptedAutoLocate = FALSE
    /\ currentLocationLabel = NoSite
    /\ autoLocate = [ pc |-> "idle", cancelled |-> FALSE, located |-> FALSE ]
    /\ selections = << >>
    /\ mapStatus = [ key |-> "loading", progress |-> 0 ]
    /\ webview = "idle"

Init == InitState(QuietEnv, FarSite, defaultSettings, FALSE)

\* Station payloads around the thresholds of the two latches: distances
\* missing, 100, 101, 120, 121 m; probabilities 0.4744 (soil saturated),
\* 0.6124 (soil and vibration) and 0.7596 (soil and slope).
TriggerPayloads ==
    { Payload(TRUE, Num(100), Num(f[1]), Num(f[2]), Num(0), distance) :
        f \in { << 25, 40 >>, << 25, 65 >>, << 45, 40 >> },
        distance \in { Undefined, Num(100), Num(101), Num(120), Num(121) } }

InitTrigger ==
    \E g \in TriggerPayloads, enabled \in BOOLEAN :
        InitState(QuietEnv, g, [ defaultSettings EXCEPT !.notifications = enabled ], FALSE)

NextTrigger ==
    \/ Mount
    \/ \E g \in TriggerPayloads : GlobalDataUpdate(g)
    \/ LanguageChange
    \/ NotificationsToggle
    \/ \E token \in BOOLEAN : PushTokenArrives(token)

SpecTrigger == InitTrigger /\ [][NextTrigger]_vars

NextSession ==
    \/ Mount
    \/ HandleToggleGroundCheckStop
    \/ HandleToggleGroundCheckStart
    \/ \E ok \in BOOLEAN : HandleToggleGroundCheckResume(ok)
    \/ \E r \in RunIds, hasNet \in BOOLEAN : StartRecordingAfterConnectivity(r, hasNet)
    \/ \E r \in RunIds, hasPermission \in BOOLEAN, accelOk \in BOOLEAN :
           StartRecordingAfterPermission(r, hasPermission, accelOk)
    \/ \E r \in RunIds, locOk \in BOOLEAN : StartRecordingAfterWatch(r, locOk)
    \/ \E r \in RunIds : GroundTimerFires(r)
    \/ \E r \in RunIds, reading \in Readings :
           nSamples < MaxSessionSamples /\ recordAccelerometer(r, reading)
    \/ \E r \in RunIds : recordLocation(r)
    \/ LanguageChange
    \/ Unmount

SpecSession == Init /\ [][NextSession]_vars

\* One session in which every check passes and the accelerometer keeps
\* delivering samples: long enough to fill the rolling buffer.
NextSamples ==
    \/ Mount
    \/ HandleToggleGroundCheckStart
    \/ HandleToggleGroundCheckResume(TRUE)
    \/ \E r \in RunIds : StartRecordingAfterConnectivity(r, TRUE)
    \/ \E r \in RunIds : StartRecordingAfterPermission(r, TRUE, TRUE)
    \/ \E r \in RunIds : StartRecordingAfterWatch(r, TRUE)
    \/ \E r \in RunIds, reading \in CalmReading :
           nSamples < MaxLongSamples /\ recordAccelerometer(r, reading)

SpecSamples == Init /\ [][NextSamples]_vars

\* ------------------------------------------------------------------ claims
Settled == \A r \in RunIds : runs[r].pc \in {"unborn", "returned"}

AccelActive == { r \in RunIds : runs[r].accelSub = "active" }
LocActive == { r \in RunIds : runs[r].locSub = "active" }

\* C1: once the session is not running (stopped, timed out or torn down)
\* and every pending async step has finished, no accelerometer
\* subscription, no location subscription and no 5-minute timer is active.
C1_AllReleasedOnceSettled ==
    ( /\ phase # "init"
      /\ (~groundRunning \/ phase = "unmounted")
      /\ pendingStarts = 0
      /\ Settled )
    => (AccelActive = {} /\ LocActive = {} /\ timers = {})

\* C5: the groundSamples buffer never holds more than 300 samples, and it
\* holds the most recent ones in arrival order.
C5_BufferAtMost300 ==
    /\ Len(groundSamples) <= 300
    /\ \A i \in 1..Len(groundSamples) :
           groundSamples[i].n = nSamples - Len(groundSamples) + i

\* C6 (as stated): whenever the session is not running, both buffers are
\* empty and the trust score is null.
C6_StopClearsBuffers ==
    (phase = "mounted" /\ ~groundRunning)
    => (groundSamples = << >> /\ groundPoints = << >> /\ groundTrust = NullTrust)

\* C6 (amended): a stop (manual or by the timer) makes groundRunning false
\* and releases the timer but leaves groundSamples, groundPoints and the
\* trust score as they were; the buffers are emptied and the trust score
\* made null only when a start resumes, which is also what every step that
\* turns groundRunning on does.
C6_StopKeepsStartClears ==
    [][ /\ (groundRunning /\ ~groundRunning')
           => /\ groundSamples' = groundSamples
              /\ groundPoints' = groundPoints
              /\ groundTrust' = groundTrust
              /\ timers' = {}
        /\ (~groundRunning /\ groundRunning')
           => (groundSamples' = << >> /\ groundPoints' = << >> /\ groundTrust' = NullTrust)
        /\ ((groundSamples # << >> /\ groundSamples' = << >>)
             \/ (groundPoints # << >> /\ groundPoints' = << >>)
             \/ (groundTrust # NullTrust /\ groundTrust' = NullTrust))
           => pendingStarts' < pendingStarts
      ]_vars

C6_StoppedWithResults ==
    /\ phase = "mounted"
    /\ ~groundRunning
    /\ \E r \in RunIds : runs[r].timerArmed
    /\ groundSamples # << >>
    /\ groundPoints # << >>
    /\ groundTrust # NullTrust

\* C10: a run holds a timer or a subscription (or is acquiring the location
\* watch) only after its connectivity check answered yes and its
\* permission request was granted; the step in which either is denied
\* ends the run with groundRunning false and with no timer and no
\* subscription ever created by it.
C10_PreconditionsGateRecording ==
    /\ [] ( \A r \in RunIds :
              ( \/ runs[r].timerArmed
                \/ runs[r].accelSub # "null"
                \/ runs[r].locSub # "null"
                \/ runs[r].pc = "watchPositionAsync" )
              => (runs[r].hasNet = "yes" /\ runs[r].hasPermission = "yes") )
    /\ [][ \A r \in RunIds :
              ( /\ runs[r].pc \in {"ensureConnectivity", "requestLocationPermission"}
                /\ (runs'[r].hasNet = "no" \/ runs'[r].hasPermission = "no") )
              => /\ runs'[r].pc = "returned"
                 /\ (phase = "mounted" => ~groundRunning')
                 /\ ~runs'[r].timerArmed
                 /\ runs'[r].accelSub = "null"
                 /\ runs'[r].locSub = "null"
                 /\ r \notin timers'
          ]_vars

C10_DeniedBackToIdle ==
    /\ phase = "mounted"
    /\ ~groundRunning
    /\ \E r \in RunIds :
          /\ runs[r].pc = "returned"
          /\ runs[r].hasNet = "yes"
          /\ runs[r].hasPermission = "no"
          /\ ~runs[r].timerArmed

\* The bundled station file, with and without coordinates, and the station
\* node of the Firebase database.
StaticSite(coords) == Payload(coords, Num(80), Num(35), Num(50), Num(150), Num(150))

RemoteSite(coords) == Payload(coords, Num(100), Num(45), Num(40), Num(30), Num(50))

Environments ==
    { [ apiKey |-> k, geocode |-> g, rain |-> r, firebase |-> f,
        remote |-> IF f THEN << RemoteSite(c) >> ELSE << >>, cloud |-> f, stored |-> st ] :
        k \in BOOLEAN, g \in { "coords", "error" },
        r \in { << "number", "number" >>, << "nodata", "number" >>, << "error", "nodata" >> },
        f \in BOOLEAN, c \in BOOLEAN, st \in { << >>, << [ id |-> "stored" ] >> } }

InitData ==
    \E e \in Environments, coords \in BOOLEAN, id \in { "{id}", "bundled" } :
        InitState(e, StaticSite(coords), [ defaultSettings EXCEPT !.id = id ], FALSE)

NextData ==
    \/ Mount
    \/ HydrationResume
    \/ \E k \in 1..Len(cloudReqs) : LoadCloudSettingsResume(k)
    \/ LoadGlobalResume
    \/ GeocodeSettles
    \/ RainEndpointSettles
    \/ Unmount

SpecData == InitData /\ [][NextData]_vars

\* ------------------------------------------------------- the trigger policy

\* C2: after the push latch has fired it does not fire again until an
\* evaluation has seen distance > 100 m or probability < 0.60; an evaluation
\* with distance <= 100 m and probability >= 0.60 never re-arms the latch;
\* and no evaluation both fires and leaves the latch re-armed.
C2_PushHysteresis ==
    /\ ~hist.pushRefire
    /\ ~hist.pushRearmInBand
    /\ ~hist.pushBoth

\* The latch fired, stayed set while the probability was inside [0.60, 0.70)
\* at the station, was re-armed and fired a second time.
C2_PushRefiredAfterClear ==
    /\ notif.pushSends + notif.localNotifications = 2
    /\ hist.pushKeptInBand
    /\ pushSentRef

\* C3: the proximity alert is raised exactly once by every evaluation with
\* distance <= 100 m and proximityNotified false, by no other evaluation, not
\* again until an evaluation has seen distance > 120 m; an evaluation with a
\* distance in (100, 120] neither raises it nor changes the latch.
C3_ProximityLatch ==
    /\ ~hist.proxMissed
    /\ ~hist.proxStray
    /\ ~hist.proxRefire
    /\ ~hist.proxBand

\* The alert was raised, re-armed beyond 120 m and raised a second time, and
\* the station is now at 101 m with the latch still set.
C3_ProximityRaisedTwice ==
    /\ notif.proximityAlerts = 2
    /\ proximityNotified
    /\ distanceOf(globalData) = 101

\* C4 as stated: every evaluation of the push-trigger effect with distance
\* <= 100 m, probability >= 0.70 and the latch clear sets the latch and
\* dispatches one push or local notification.
C4_PushFiresWheneverDue == ~hist.pushMissed

\* C4: every evaluation of the push-trigger effect with notifications
\* enabled in the settings, distance <= 100 m, probability >= 0.70 and the
\* latch clear sets the latch and dispatches one push or local notification.
C4_PushFiresWhenEnabled == ~hist.pushMissedEnabled

\* The latch has fired once, with a local notification, at the station at
\* high risk.
C4_PushFiredAtHighRisk ==
    /\ settings.notifications
    /\ pushSentRef
    /\ notif.localNotifications = 1
    /\ notif.pushSends = 0
    /\ distanceOf(globalData) <= 100
    /\ ProbAtLeast(probabilityOf(sensorSnapshot), 70)

\* ------------------------------------------------------------ the data feeds

NoFetchPending ==
    /\ geocodeReq.state # "pending"
    /\ rainReq.state # "pending"
    /\ globalReq.state # "pending"

\* C7: with an OpenWeather API key, station coordinates and a rainfall
\* endpoint that answers with a number, once no request is in flight any
\* more on the mounted screen the snapshot's rainfall24h is the fetched
\* value, whatever updates happened while the request was in flight.
C7_LiveRainfallOnceSettled ==
    ( /\ phase = "mounted"
      /\ NoFetchPending
      /\ env.apiKey
      /\ getStationCoordinates(globalData)
      /\ \E k \in 1..RainEndpoints : env.rain[k] = "number" )
    => ( hist.rainfallLive /\ sensorSnapshot.rainfall24h = LiveRainfall )

\* C8: once the remote station config has been fetched and applied, the
\* snapshot holds the four readings of the remote config, unless a live
\* rainfall value has been fetched.
C8_SnapshotFromRemote ==
    ( hist.remoteApplied /\ ~hist.rainfallLive )
    => sensorSnapshot = createSnapshotFromData(env.remote[1])

DispatchPayloads ==
    { Payload(TRUE, Num(100), Num(slope), Num(40), Num(0), Num(distance)) :
        slope \in { 25, 45 }, distance \in { 100, 121 } }

InitDispatch ==
    \E g \in DispatchPayloads, token \in BOOLEAN :
        InitState(QuietEnv, g, defaultSettings, token)

NextDispatch ==
    \/ Mount
    \/ \E g \in DispatchPayloads : GlobalDataUpdate(g)
    \/ NotificationsToggle
    \/ \E token \in BOOLEAN : PushTokenArrives(token)
    \/ \E ok \in BOOLEAN : SendSettles(ok)

SpecDispatch == InitDispatch /\ [][NextDispatch]_vars

\* C11: a step that fires the push latch makes exactly one send attempt, a
\* remote push when a push token is held and a local notification
\* otherwise; a step in which a send settles, failed or not, makes no send
\* attempt and leaves the push latch as it was, and a failure is reported.
C11_OneSendPerFire ==
    [][ /\ notif'.pushSends + notif'.localNotifications
           <= notif.pushSends + notif.localNotifications + 1
        /\ notif'.pushSends >= notif.pushSends
        /\ notif'.localNotifications >= notif.localNotifications
        /\ (notif'.pushSends > notif.pushSends) => expoPushToken'
        /\ (notif'.localNotifications > notif.localNotifications)
              => ~expoPushToken'
        /\ (~pushSentRef /\ pushSentRef')
              => notif'.pushSends + notif'.localNotifications
                 = notif.pushSends + notif.localNotifications + 1
        /\ (notif'.sendsInFlight < notif.sendsInFlight)
              => /\ pushSentRef' = pushSentRef
                 /\ notif'.pushSends = notif.pushSends
                 /\ notif'.localNotifications = notif.localNotifications
                 /\ notif'.sendWarnings \in { notif.sendWarnings, notif.sendWarnings + 1 }
        /\ (notif'.sendWarnings > notif.sendWarnings)
              => notif'.sendsInFlight = notif.sendsInFlight - 1 ]_vars

\* One remote push was attempted and failed: it was reported, nothing is in
\* flight any more and the latch is still set.
C11_FailedSendLogged ==
    /\ notif.pushSends = 1
    /\ notif.localNotifications = 0
    /\ notif.sendsInFlight = 0
    /\ notif.sendWarnings = 1
    /\ pushSentRef

\* C12: no evaluation of the push-trigger effect dispatches a notification
\* when the distance it sees is above 100 m or the probability it sees is
\* below 0.70.
C12_NoPushOutsideConditions == ~hist.pushStray

\* The effects have run with notifications enabled for a station 121 m away
\* at probability 0.7596, and nothing was ever dispatched.
C12_FarHighRiskSilent ==
    /\ phase = "mounted"
    /\ settings.notifications
    /\ distanceOf(globalData) = 121
    /\ ProbAtLeast(probabilityOf(sensorSnapshot), 70)
    /\ notif.pushSends + notif.localNotifications = 0
    /\ ~pushSentRef

\* ------------------------------------------------------ session termination
\* The session steps without the sensor callbacks.
NextTermination ==
    \/ Mount
    \/ HandleToggleGroundCheckStop
    \/ HandleToggleGroundCheckStart
    \/ \E ok \in BOOLEAN : HandleToggleGroundCheckResume(ok)
    \/ \E r \in RunIds, hasNet \in BOOLEAN : StartRecordingAfterConnectivity(r, hasNet)
    \/ \E r \in RunIds, hasPermission \in BOOLEAN, accelOk \in BOOLEAN :
          StartRecordingAfterPermission(r, hasPermission, accelOk)
    \/ \E r \in RunIds, locOk \in BOOLEAN : StartRecordingAfterWatch(r, locOk)
    \/ \E r \in RunIds : GroundTimerFires(r)
    \/ LanguageChange
    \/ Unmount

\* A pending timeout fires and an awaited promise settles; taps, language
\* changes and the unmount are up to the user.
SpecTermination ==
    /\ Init
    /\ [][NextTermination]_vars
    /\ WF_vars(\E r \in RunIds : GroundTimerFires(r))
    /\ WF_vars(\E r \in RunIds, hasNet \in BOOLEAN : StartRecordingAfterConnectivity(r, hasNet))
    /\ WF_vars(\E r \in RunIds, hasPermission \in BOOLEAN, accelOk \in BOOLEAN :
                  StartRecordingAfterPermission(r, hasPermission, accelOk))

\* The current run of the effect has passed both checks of startRecording.
Recording ==
    /\ phase = "mounted"
    /\ groundRunning
    /\ curRun # NoRun
    /\ runs[curRun].pc \in { "watchPositionAsync", "returned" }

\* C13: while a session is recording its 5-minute timer is pending, and
\* every session that is recording eventually has groundRunning false (or
\* the screen is gone).
C13_RecordingEnds ==
    /\ [](Recording => (groundTimerRef = curRun /\ curRun \in timers))
    /\ (Recording ~> (~groundRunning \/ phase = "unmounted"))

\* A session that recorded has been left on the mounted screen: its run is
\* cancelled, no timer is pending and groundRunning is false.
C13_RecordingLeft ==
    /\ phase = "mounted"
    /\ ~groundRunning
    /\ timers = {}
    /\ \E r \in RunIds : runs[r].timerArmed /\ runs[r].cancelled

\* ---------------------------------------------------- subscription failures
\* C14: a run of startRecording that passed both checks and was not
\* cancelled keeps groundRunning true with its timer pending whether or not
\* its accelerometer listener or its location watch could be acquired: the
\* step that fails to add the listener still arms the timer and goes on to
\* the location watch, and the step in which the location watch fails
\* changes neither groundRunning, the timer nor the accelerometer listener.
C14_SubscriptionFailureKeepsSession ==
    /\ [](\A r \in RunIds :
            (runs[r].pc \in { "watchPositionAsync", "returned" }
               /\ runs[r].hasPermission = "yes" /\ ~runs[r].cancelled)
            => (groundRunning /\ r \in timers /\ groundTimerRef = r))
    /\ [][ \A r \in RunIds :
            /\ (runs[r].pc = "requestLocationPermission"
                   /\ runs'[r].pc = "watchPositionAsync")
                => (groundRunning' /\ r \in timers')
            /\ (runs[r].pc = "watchPositionAsync" /\ runs'[r].pc = "returned")
                => /\ groundRunning' = groundRunning
                   /\ timers' = timers
                   /\ runs'[r].accelSub = runs[r].accelSub ]_vars

\* One session recorded with the location watch only (its listener could
\* not be added) and has ended; the next one is recording with the
\* accelerometer only, its timer pending.
C14_EachStreamAlone ==
    /\ groundRunning
    /\ \E r \in RunIds :
          /\ runs[r].cancelled /\ runs[r].timerArmed
          /\ runs[r].accelSub = "null" /\ runs[r].locSub = "removed"
    /\ \E r \in RunIds :
          /\ r = curRun /\ runs[r].pc = "returned" /\ r \in timers
          /\ runs[r].accelSub = "active" /\ runs[r].locSub = "null"

\* C15: with an API key, a place query and a geocoding service that answers
\* with coordinates, once no request is in flight any more on the mounted
\* screen the station data has coordinates, even when the station data was
\* replaced while the geocode request was in flight.
C15_CoordinatesOnceSettled ==
    ( /\ phase = "mounted"
      /\ NoFetchPending
      /\ env.apiKey
      /\ globalData.query
      /\ env.geocode = "coords" )
    => getStationCoordinates(globalData)

\* ------------------------------------------------------------- sanitising
\* Station files and nodes whose readings are numbers, missing or NaN.
SanitisePayloads ==
    { Payload(TRUE, soil, slope, vibration, rain, Num(150)) :
        soil \in { Num(80), Undefined }, slope \in { Num(35), NaN },
        vibration \in { Num(50), Undefined }, rain \in { Num(150), NaN } }

SanitiseEnvironments ==
    { [ apiKey |-> TRUE, geocode |-> "error", rain |-> r, firebase |-> TRUE,
        remote |-> << g >>, cloud |-> FALSE, stored |-> << >> ] :
        r \in { << "number", "number" >>, << "overflow", "number" >>,
                << "error", "overflow" >> },
        g \in { Payload(TRUE, NaN, Undefined, NaN, Undefined, Num(150)),
                Payload(TRUE, Num(100), Num(45), Num(40), Num(30), Num(150)) } }

InitSanitise ==
    \E e \in SanitiseEnvironments, g \in SanitisePayloads :
        InitState(e, g, defaultSettings, FALSE)

NextSanitise ==
    \/ Mount
    \/ LoadGlobalResume
    \/ RainEndpointSettles
    \/ Unmount

SpecSanitise == InitSanitise /\ [][NextSanitise]_vars

\* C16: whatever the bundled config, the remote config and the live
\* rainfall fetch supply, no field of the snapshot is NaN, and neither is a
\* risk level nor the probability.
C16_NeverNaN ==
    /\ \A key \in DOMAIN WEIGHTS :
          /\ sensorSnapshot[key] # NotANumber
          /\ riskLevels(sensorSnapshot)[key] # NotANumber
    /\ probabilityOf(sensorSnapshot) # NotANumber

\* ------------------------------------------------------- the scoring engine
\* Readings below, at, inside, at the top of and above each ramp.
SoilGrid == { 40, 60, 80, 100, 120 }
SlopeGrid == { 20, 25, 35, 45, 50 }
RainGrid == { 50, 80, 150, 200, 250 }
VibrationGrid == { 30, 40, 50, 65, 80 }

ScoringPayloads ==
    { Payload(TRUE, Num(soil), Num(slope), Num(vibration), Num(rain), Num(150)) :
        soil \in SoilGrid, slope \in SlopeGrid, vibration \in VibrationGrid,
        rain \in RainGrid }

\* Later values of the config: each reading missing, or at one end of its ramp.
ScoringUpdates ==
    { Payload(TRUE, soil, slope, vibration, Num(150), Num(150)) :
        soil \in { Undefined, Num(60), Num(100) },
        slope \in { NaN, Num(25), Num(45) },
        vibration \in { Undefined, Num(40), Num(65) } }

ScoringEnvironments ==
    { [ apiKey |-> TRUE, geocode |-> "error", rain |-> r, firebase |-> FALSE,
        remote |-> << >>, cloud |-> FALSE, stored |-> << >> ] :
        r \in { << "number", "number" >>, << "overflow", "number" >>,
                << "error", "overflow" >> } }

InitScoring ==
    \E e \in ScoringEnvironments, g \in ScoringPayloads :
        InitState(e, g, defaultSettings, FALSE)

NextScoring ==
    \/ Mount
    \/ \E g \in ScoringUpdates : GlobalDataUpdate(g)
    \/ RainEndpointSettles
    \/ Unmount

SpecScoring == InitScoring /\ [][NextScoring]_vars

\* A value of the given scale, rounded to three decimals (in thousandths).
Thousandths(n, scale) ==
    IF scale % 2000 = 0
    THEN (n + scale \div 2000) \div (scale \div 1000)
    ELSE (2000 * n + scale) \div (2 * scale)

ReferenceSnapshot ==
    [ soilMoisture |-> 80, slopeAngle |-> 35, rainfall24h |-> 150,
      groundVibration |-> 50 ]

\* What the screen derives from the snapshot, to three decimals.
Derived(snapshot) ==
    [ soilMoisture    |-> Thousandths(riskLevels(snapshot).soilMoisture, LevelScale),
      slopeAngle      |-> Thousandths(riskLevels(snapshot).slopeAngle, LevelScale),
      rainfall24h     |-> Thousandths(riskLevels(snapshot).rainfall24h, LevelScale),
      groundVibration |-> Thousandths(riskLevels(snapshot).groundVibration, LevelScale),
      weightedScore   |-> Thousandths(weightedScore(riskLevels(snapshot)),
                                      LevelScale * WeightScale),
      probability     |-> Thousandths(probabilityOf(snapshot), ProbScale),
      band            |-> describeBand(probabilityOf(snapshot)) ]

\* C17 (as stated): for the snapshot {80, 35, 150, 5} the levels are 0.5, 0.5,
\* 0.583 and 0.4, the weighted score 0.488, the probability 0.629 and the band
\* Elevated.
C17_ReferenceAsStated ==
    sensorSnapshot = ReferenceSnapshot =>
        Derived(sensorSnapshot) =
            [ soilMoisture |-> 500, slopeAngle |-> 500, rainfall24h |-> 583,
              groundVibration |-> 400, weightedScore |-> 488,
              probability |-> 629, band |-> "elevated" ]

\* C17 (amended): for the snapshot {80, 35, 150, 5} the levels are 0.5, 0.5,
\* 0.583 and 0.4, the weighted score 0.503, the probability 0.643 and the band
\* Elevated.
C17_ReferenceScenario ==
    sensorSnapshot = ReferenceSnapshot =>
        Derived(sensorSnapshot) =
            [ soilMoisture |-> 500, slopeAngle |-> 500, rainfall24h |-> 583,
              groundVibration |-> 400, weightedScore |-> 503,
              probability |-> 643, band |-> "elevated" ]

C17_ReferenceShown == phase = "mounted" /\ sensorSnapshot = ReferenceSnapshot

\* Every reading of the snapshot is a number (no NaN).
AllNumbers(snapshot) == \A key \in DOMAIN WEIGHTS : snapshot[key] # NotANumber

\* C18: the weights are non-negative and sum to 1.0, and for every snapshot of
\* numbers the weighted score is in [0,1] and the probability in [0.18, 1.0]:
\* never below 0.18, and 1.0 when all four levels are 1.
C18_ProbabilityRange ==
    /\ \A key \in DOMAIN WEIGHTS : WEIGHTS[key] >= 0
    /\ WEIGHTS.soilMoisture + WEIGHTS.slopeAngle + WEIGHTS.rainfall24h
           + WEIGHTS.groundVibration = WeightScale
    /\ AllNumbers(sensorSnapshot) =>
           LET levels == riskLevels(sensorSnapshot)
               score  == weightedScore(levels)
               p      == probabilityOf(sensorSnapshot)
           IN  /\ score >= 0
               /\ score <= LevelScale * WeightScale
               /\ ProbAtLeast(p, 18)
               /\ p <= ProbScale
               /\ p = clamp(18 * LevelScale * WeightScale + 92 * score, 0, ProbScale)
               /\ (\A key \in DOMAIN WEIGHTS : levels[key] = LevelScale)
                      => p = ProbScale

C18_CertainAtFullLevels ==
    /\ phase = "mounted"
    /\ \A key \in DOMAIN WEIGHTS : riskLevels(sensorSnapshot)[key] = LevelScale
    /\ probabilityOf(sensorSnapshot) = ProbScale

\* The bands from the lowest to the highest.
BandRank(band) ==
    CASE band = "stable" -> 0
      [] band = "caution" -> 1
      [] band = "elevated" -> 2
      [] band = "high" -> 3
      [] band = "danger" -> 4

\* The probabilities 0.00, 0.01, ..., 1.00 (the four thresholds among them) and
\* the value next below each of them.
ProbabilityGrid ==
    UNION { { h * (ProbScale \div 100), h * (ProbScale \div 100) - 1 } : h \in 0..100 }

\* Variant: ground vibration adds to the pressure as well.
ProjectedWithVibration(snapshot, hours) ==
    LET levels   == riskLevels(snapshot)
        pressure == 18 * levels.rainfall24h + 12 * levels.slopeAngle
                    + 10 * levels.soilMoisture + 10 * levels.groundVibration
    IN  IF probabilityOf(snapshot) = NotANumber THEN NotANumber
        ELSE clamp(probabilityOf(snapshot) + (hours * pressure * WeightScale) \div 6,
                   0, ProbScale)

\* The projections of the 1, 3 and 6 hour forecasts:
\* clamp(probability + (hours / 6) * (0.18 rain + 0.12 slope + 0.10 soil), 0, 1).
Projected(snapshot, hours) ==
    LET levels   == riskLevels(snapshot)
        pressure == 18 * levels.rainfall24h + 12 * levels.slopeAngle
                    + 10 * levels.soilMoisture
    IN  IF probabilityOf(snapshot) = NotANumber THEN NotANumber
        ELSE clamp(probabilityOf(snapshot) + (hours * pressure * WeightScale) \div 6,
                   0, ProbScale)

\* The values the screen classifies: the probability and the three projections.
Classified ==
    { probabilityOf(sensorSnapshot) }
        \cup { Projected(sensorSnapshot, hours) : hours \in { 1, 3, 6 } }

\* The band the thresholds assign to a probability.
BandOf(p) ==
    IF p * 100 >= 80 * ProbScale THEN "danger"
    ELSE IF p * 100 >= 65 * ProbScale /\ p * 100 < 80 * ProbScale THEN "high"
    ELSE IF p * 100 >= 45 * ProbScale /\ p * 100 < 65 * ProbScale THEN "elevated"
    ELSE IF p * 100 >= 28 * ProbScale /\ p * 100 < 45 * ProbScale THEN "caution"
    ELSE "stable"

\* C19: every probability falls in exactly the band whose inclusive lower
\* bound it reaches (danger from 0.80, high from 0.65, elevated from 0.45,
\* caution from 0.28, stable below), at the thresholds themselves the higher
\* band applies, and a larger probability never gets a lower band.
C19_BandStepFunction ==
    LET finite == { p \in Classified : p # NotANumber } \cup ProbabilityGrid
    IN  /\ \A p \in finite : describeBand(p) = BandOf(p)
        /\ describeBand(28 * (ProbScale \div 100)) = "caution"
        /\ describeBand(45 * (ProbScale \div 100)) = "elevated"
        /\ describeBand(65 * (ProbScale \div 100)) = "high"
        /\ describeBand(80 * (ProbScale \div 100)) = "danger"
        /\ \A p \in Classified : \A q \in finite :
               (p # NotANumber /\ q <= p)
                   => BandRank(describeBand(q)) <= BandRank(describeBand(p))

\* A mounted screen whose probability and 6 hour projection fall in
\* different bands.
C19_ForecastInHigherBand ==
    /\ phase = "mounted"
    /\ probabilityOf(sensorSnapshot) # NotANumber
    /\ describeBand(probabilityOf(sensorSnapshot)) = "elevated"
    /\ describeBand(Projected(sensorSnapshot, 6)) = "danger"

\* The ramp of each factor, << startRisk, danger >>, vibration in tenths.
FactorRamps ==
    [ soilMoisture |-> << 60, 100 >>, rainfall24h |-> << 80, 200 >>,
      slopeAngle |-> << 25, 45 >>, groundVibration |-> << 40, 65 >> ]

\* Raw values to compare a reading with: the grid of its factor and the two
\* infinities.
RawValues(key) ==
    (CASE key = "soilMoisture" -> SoilGrid
       [] key = "rainfall24h" -> RainGrid
       [] key = "slopeAngle" -> SlopeGrid
       [] key = "groundVibration" -> VibrationGrid)
        \cup { 0, NegativeInfinity, PositiveInfinity }

\* C20: for each factor the level is clamp((raw - start) / (danger - start), 0, 1)
\* over its ramp: in [0,1] for every raw number, 0 at or below start, 1 at or
\* above danger, and never smaller for a larger raw value.
C20_LevelsNormalised ==
    \A key \in DOMAIN FactorRamps :
        LET raw    == sensorSnapshot[key]
            start  == FactorRamps[key][1]
            danger == FactorRamps[key][2]
            level  == riskLevels(sensorSnapshot)[key]
        IN  raw # NotANumber =>
                /\ level = riskFromRange(raw, start, danger)
                /\ level >= 0
                /\ level <= LevelScale
                /\ raw <= start => level = 0
                /\ raw >= danger => level = LevelScale
                /\ (raw > start /\ raw < danger)
                       => level = ((raw - start) * LevelScale) \div (danger - start)
                /\ \A other \in RawValues(key) :
                       /\ other <= raw => riskFromRange(other, start, danger) <= level
                       /\ other >= raw => riskFromRange(other, start, danger) >= level

\* A mounted screen with one reading above its ramp (an infinite live
\* rainfall) and one below (a missing soil moisture, read as 0).
C20_OutsideTheRamps ==
    /\ phase = "mounted"
    /\ sensorSnapshot.rainfall24h = PositiveInfinity
    /\ riskLevels(sensorSnapshot).rainfall24h = LevelScale
    /\ sensorSnapshot.soilMoisture = 0
    /\ riskLevels(sensorSnapshot).soilMoisture = 0

\* ------------------------------------------------------------- forecasts
FORECAST_HOURS == << 1, 3, 6 >>

\* forecasts: FORECAST_HOURS.map(hours => ({ hours, projected, band })).
forecasts(snapshot) ==
    [ i \in DOMAIN FORECAST_HOURS |->
        [ hours     |-> FORECAST_HOURS[i],
          projected |-> Projected(snapshot, FORECAST_HOURS[i]),
          band      |-> describeBand(Projected(snapshot, FORECAST_HOURS[i])) ] ]

\* 0.18 rain + 0.12 slope + 0.10 soil, at the scale of the probability.
Pressure(snapshot) ==
    (18 * riskLevels(snapshot).rainfall24h + 12 * riskLevels(snapshot).slopeAngle
        + 10 * riskLevels(snapshot).soilMoisture) * WeightScale

\* C21: the forecasts are those of 1, 3 and 6 hours in that order; each
\* projection is clamp(probability + (h/6) * (0.18 rain + 0.12 slope + 0.10 soil),
\* 0, 1), without ground vibration; the projections are in [0,1] and do not
\* decrease with the horizon, the 6 hour one is clamp(probability + pressure,
\* 0, 1), and each band classifies its projection.
C21_ForecastProjection ==
    LET p  == probabilityOf(sensorSnapshot)
        fc == forecasts(sensorSnapshot)
    IN  p # NotANumber =>
            /\ Len(fc) = 3
            /\ << fc[1].hours, fc[2].hours, fc[3].hours >> = << 1, 3, 6 >>
            /\ \A i \in 1..3 :
                   /\ 6 * fc[i].projected
                         = clamp(6 * p + fc[i].hours * Pressure(sensorSnapshot),
                                 0, 6 * ProbScale)
                   /\ fc[i].projected >= 0
                   /\ fc[i].projected <= ProbScale
                   /\ fc[i].band = describeBand(fc[i].projected)
            /\ fc[1].projected <= fc[2].projected
            /\ fc[2].projected <= fc[3].projected
            /\ fc[3].projected = clamp(p + Pressure(sensorSnapshot), 0, ProbScale)

\* A mounted screen whose three projections rise through three bands, the
\* reading of ground vibration being inside its ramp.
C21_RisingForecast ==
    /\ phase = "mounted"
    /\ probabilityOf(sensorSnapshot) # NotANumber
    /\ riskLevels(sensorSnapshot).groundVibration \in 1..(LevelScale - 1)
    /\ LET fc == forecasts(sensorSnapshot)
       IN  /\ fc[1].projected < fc[2].projected
           /\ fc[2].projected < fc[3].projected
           /\ BandRank(fc[1].band) < BandRank(fc[2].band)
           /\ BandRank(fc[2].band) < BandRank(fc[3].band)

\* ------------------------------------------------------- dominant factor
\* Object.keys(metricConfig): the order of the factors.
FactorKeys == << "soilMoisture", "slopeAngle", "rainfall24h", "groundVibration" >>

\* The reduce starts from null.
NoFactor == "null"

\* riskLevels[key] * WEIGHTS[key]
FactorScore(levels, key) ==
    IF levels[key] = NotANumber THEN NotANumber ELSE levels[key] * WEIGHTS[key]

\* a > b on numbers (false when either is NaN)
JsGreater(a, b) == a # NotANumber /\ b # NotANumber /\ a > b

\* Variant: a later factor replaces the top one on a tie as well.
RECURSIVE ReduceDominantLastWins(_, _, _)
ReduceDominantLastWins(levels, top, i) ==
    IF i > Len(FactorKeys) THEN top
    ELSE LET current == FactorKeys[i]
             next == IF top = NoFactor THEN current
                     ELSE IF ~JsGreater(FactorScore(levels, top),
                                        FactorScore(levels, current))
                          THEN current ELSE top
         IN  ReduceDominantLastWins(levels, next, i + 1)

\* factors.reduce((top, current) => !top ? current
\*                    : currentScore > topScore ? current : top, null),
\* from the i-th factor on.
RECURSIVE ReduceDominant(_, _, _)
ReduceDominant(levels, top, i) ==
    IF i > Len(FactorKeys) THEN top
    ELSE LET current == FactorKeys[i]
             next == IF top = NoFactor THEN current
                     ELSE IF JsGreater(FactorScore(levels, current),
                                       FactorScore(levels, top))
                          THEN current ELSE top
         IN  ReduceDominant(levels, next, i + 1)

dominantFactor(snapshot) == ReduceDominant(riskLevels(snapshot), NoFactor, 1)

\* C22: a dominant factor is always defined; it has the largest level * weight
\* of the four factors, and of several factors with the largest product the
\* first in the order soilMoisture, slopeAngle, rainfall24h, groundVibration
\* is selected, soilMoisture when all levels are 0.
C22_DominantFactor ==
    LET levels   == riskLevels(sensorSnapshot)
        dominant == dominantFactor(sensorSnapshot)
        \* the place of a factor in the order
        FactorIndex(key) == CHOOSE i \in DOMAIN FactorKeys : FactorKeys[i] = key
    IN  /\ dominant \in DOMAIN WEIGHTS
        /\ FactorKeys = << "soilMoisture", "slopeAngle", "rainfall24h",
                           "groundVibration" >>
        /\ AllNumbers(sensorSnapshot) =>
               /\ \A key \in DOMAIN WEIGHTS :
                      /\ FactorScore(levels, key) <= FactorScore(levels, dominant)
                      /\ FactorIndex(key) < FactorIndex(dominant)
                            => FactorScore(levels, key) < FactorScore(levels, dominant)
               /\ (\A key \in DOMAIN WEIGHTS : levels[key] = 0)
                      => dominant = "soilMoisture"

\* A mounted screen with all four levels 0 and soilMoisture dominant.
C22_AllLevelsZero ==
    /\ phase = "mounted"
    /\ \A key \in DOMAIN WEIGHTS : riskLevels(sensorSnapshot)[key] = 0
    /\ dominantFactor(sensorSnapshot) = "soilMoisture"

\* ------------------------------------------------------------ ground trust
MaxTrustSamples == 3

\* Accelerometer readings in hundredths of g, each a multiple of 0.25:
\* magnitudes 0, 0.25, 0.75, 1.25 and 3.
TrustReadings ==
    { << 0, 0, 0 >>, << 25, 0, 0 >>, << -50, 25, 0 >>, << 0, 0, -125 >>,
      << 100, 100, 100 >> }

NextTrust ==
    \/ Mount
    \/ HandleToggleGroundCheckStop
    \/ HandleToggleGroundCheckStart
    \/ HandleToggleGroundCheckResume(TRUE)
    \/ \E r \in RunIds : StartRecordingAfterConnectivity(r, TRUE)
    \/ \E r \in RunIds : StartRecordingAfterPermission(r, TRUE, TRUE)
    \/ \E r \in RunIds : StartRecordingAfterWatch(r, TRUE)
    \/ \E r \in RunIds, reading \in TrustReadings :
           nSamples < MaxTrustSamples /\ recordAccelerometer(r, reading)

SpecTrust == Init /\ [][NextTrust]_vars

\* Buffers of one or two samples, to compare the buffer of the state with.
OtherBuffers ==
    { << [ ax |-> a[1], ay |-> a[2], az |-> a[3] ] >> : a \in TrustReadings }
        \cup { << [ ax |-> a[1], ay |-> a[2], az |-> a[3] ],
                  [ ax |-> b[1], ay |-> b[2], az |-> b[3] ] >> :
                  a \in TrustReadings, b \in TrustReadings }

\* C23: the trust score is null for an empty buffer; otherwise it is
\* round(clamp(100 - 40 * mean(|ax| + |ay| + |az|), 0, 100)), an integer in
\* [0, 100] that does not increase with the average magnitude: 100 for
\* all-zero samples, 0 for samples (1, 1, 1).
C23_GroundTrustScore ==
    LET n     == Len(groundSamples)
        sum   == SumMagnitude(groundSamples)
        score == groundTrustScore(groundSamples)
        \* clamp(100 - 40 * mean, 0, 100) times 5 n
        value == clamp(500 * n - 2 * sum, 0, 500 * n)
    IN  /\ groundTrust = score
        /\ n = 0 <=> score = NullTrust
        /\ n > 0 =>
               /\ score \in 0..100
               /\ (2 * score - 1) * 5 * n <= 2 * value
               /\ 2 * value < (2 * score + 1) * 5 * n
               /\ (\A i \in 1..n : groundSamples[i].ax = 0 /\ groundSamples[i].ay = 0
                                      /\ groundSamples[i].az = 0) => score = 100
               /\ (\A i \in 1..n : groundSamples[i].ax = 100 /\ groundSamples[i].ay = 100
                                      /\ groundSamples[i].az = 100) => score = 0
               /\ \A other \in OtherBuffers :
                      /\ SumMagnitude(other) * n >= sum * Len(other)
                            => groundTrustScore(other) <= score
                      /\ SumMagnitude(other) * n <= sum * Len(other)
                            => groundTrustScore(other) >= score

\* A recording whose buffer holds samples (1, 1, 1) only, with trust 0.
C23_ShakenDevice ==
    /\ groundRunning
    /\ Len(groundSamples) = 2
    /\ \A i \in 1..2 : groundSamples[i].ax = 100 /\ groundSamples[i].ay = 100
                            /\ groundSamples[i].az = 100
    /\ groundTrust = 0

\* --------------------------------------------------------------- device id
\* What the two stores hold under ls2_settings: nothing, a usable id, the
\* placeholder, or an empty id; the bundled local.json likewise.
StoredSettings == { << >>, << [ id |-> "stored" ] >>, << [ id |-> "{id}" ] >>,
                    << [ id |-> "" ] >> }

IdentityEnvironments ==
    { [ QuietEnv EXCEPT !.firebase = f, !.cloud = f, !.stored = st ] :
        f \in BOOLEAN, st \in StoredSettings }

InitIdentity ==
    \E e \in IdentityEnvironments, id \in { "{id}", "bundled", "" } :
        InitState(e, FarSite, [ defaultSettings EXCEPT !.id = id ], FALSE)

NextIdentity ==
    \/ Mount
    \/ HydrationResume
    \/ \E k \in 1..Len(cloudReqs) : LoadCloudSettingsResume(k)
    \/ LoadGlobalResume
    \/ LanguageChange
    \/ NotificationsToggle
    \/ Unmount

SpecIdentity == InitIdentity /\ [][NextIdentity]_vars

\* The step stores a generated id.
IdGenerated == settings'.id = generateLocalId /\ settings.id # generateLocalId

\* The id the id effect finds once the stored settings are merged.
HydratedId == IF env.stored # << >> THEN env.stored[1].id ELSE settings.id

\* C24: an id is generated only in the step that hydrates the stored
\* settings or later, only if the id is then missing or the placeholder, only
\* while idEnsured is unset (which the generation sets, for good), and never
\* when the stores held a usable id.
C24_IdGeneratedOnceAfterHydration ==
    [][ /\ IdGenerated =>
              /\ storageHydrated'
              /\ ~idEnsured
              /\ idEnsured'
              /\ ~ValidId(HydratedId)
              /\ ~(env.stored # << >> /\ ValidId(env.stored[1].id))
        /\ idEnsured => idEnsured'
        /\ (~storageHydrated /\ storageHydrated' /\ env.stored # << >>
                /\ ValidId(env.stored[1].id)) => settings'.id = env.stored[1].id
      ]_vars

\* The stores held no usable id and one was generated after hydration.
C24_IdGenerated ==
    /\ storageHydrated
    /\ idEnsured
    /\ settings.id = generateLocalId
    /\ env.stored = << [ id |-> "{id}" ] >>

\* ------------------------------------------------- the session and re-renders
\* C25: a change of language while a recording stays running leaves the
\* session as it was: the same run, its subscriptions and its 5 minute timer,
\* none of them released and acquired again.
C25_RecordingSurvivesLanguageChange ==
    [][ (groundRunning /\ groundRunning' /\ settings'.lang # settings.lang)
            => /\ curRun' = curRun
               /\ runs' = runs
               /\ timers' = timers
               /\ groundTimerRef' = groundTimerRef
      ]_vars

\* The session under taps on the button only: no change of language.
NextRestart ==
    \/ Mount
    \/ HandleToggleGroundCheckStop
    \/ HandleToggleGroundCheckStart
    \/ \E ok \in BOOLEAN : HandleToggleGroundCheckResume(ok)
    \/ \E r \in RunIds, hasNet \in BOOLEAN : StartRecordingAfterConnectivity(r, hasNet)
    \/ \E r \in RunIds, hasPermission \in BOOLEAN, accelOk \in BOOLEAN :
          StartRecordingAfterPermission(r, hasPermission, accelOk)
    \/ \E r \in RunIds, locOk \in BOOLEAN : StartRecordingAfterWatch(r, locOk)
    \/ \E r \in RunIds : GroundTimerFires(r)
    \/ Unmount

SpecRestart == Init /\ [][NextRestart]_vars

\* C26: a start attempt that was cancelled while it waited for the
\* connectivity check or the permission request leaves a newer session alone:
\* when it resumes while a newer run is the current one, groundRunning stays
\* true.
C26_CancelledStartLeavesNewerSession ==
    [][ \A r \in RunIds :
            ( /\ runs[r].cancelled
              /\ runs[r].pc \in { "ensureConnectivity", "requestLocationPermission" }
              /\ runs'[r].pc = "returned"
              /\ groundRunning
              /\ curRun # NoRun
              /\ curRun > r )
                => groundRunning'
      ]_vars

\* ---------------------------------------------------- MonitoringProvider
\* handleSelectSite calls made over one provider lifetime.
MaxSelections == 2

\* What the provinces API answers: a list of provinces, each known by name.
ProvincePayload == << "Ha Giang", "Lao Cai" >>

\* The coordinates Location.getCurrentPositionAsync reports.
DeviceCoords == "device"

\* The provider mounts: loadProvinces() sets isFetchingProvinces, clears
\* provinceError and suspends at `await fetch(PROVINCES_ENDPOINT)`; the two
\* other effects return at once, provinces being empty.
MonitoringMount ==
    /\ provincesReq = "idle"
    /\ provincesReq' = "pending"
    /\ isFetchingProvinces' = TRUE
    /\ provinceError' = FALSE
    /\ UNCHANGED << provinces, activeSite, locationQuery, activeCoords, locationStatus,
                    isResolvingSelection, hasAttemptedAutoLocate, currentLocationLabel,
                    autoLocate, selections >>
    /\ UNCHANGED << homeVars, mapVars >>

\* loadProvinces() resumes. With a list, setProvinces(payload) renders and
\* the effects run: the fallback effect takes provinces[0] as the active site
\* when there is none; the auto-locate effect calls resolveDeviceLocation(),
\* which sets hasAttemptedAutoLocate and locationStatus 'locating' and
\* suspends at `await requestForegroundPermissionsAsync()`. These state
\* changes render again: hasAttemptedAutoLocate is a dependency of the
\* auto-locate effect, so its cleanup runs (cancelled = true) and the effect
\* body returns at `hasAttemptedAutoLocate`.
LoadProvincesSettles(payload, ok) ==
    /\ provincesReq = "pending"
    /\ provincesReq' = "done"
    /\ isFetchingProvinces' = FALSE
    /\ IF ~ok
       THEN /\ provinceError' = TRUE
            /\ UNCHANGED << provinces, activeSite, locationQuery, locationStatus,
                            hasAttemptedAutoLocate, autoLocate >>
       ELSE /\ provinces' = payload
            /\ provinceError' = provinceError
            /\ IF activeSite = NoSite /\ Len(payload) > 0
               THEN activeSite' = payload[1] /\ locationQuery' = payload[1]
               ELSE UNCHANGED << activeSite, locationQuery >>
            /\ IF Len(payload) > 0 /\ ~hasAttemptedAutoLocate
               THEN /\ hasAttemptedAutoLocate' = TRUE
                    /\ locationStatus' = "locating"
                    /\ autoLocate' = [ pc |-> "requestForegroundPermissionsAsync",
                                       cancelled |-> TRUE, located |-> FALSE ]
               ELSE UNCHANGED << hasAttemptedAutoLocate, locationStatus, autoLocate >>
    /\ UNCHANGED << activeCoords, isResolvingSelection, currentLocationLabel, selections >>
    /\ UNCHANGED << homeVars, mapVars >>

\* catch { if (!cancelled) setLocationStatus('error'); }
AutoLocateCatch ==
    /\ locationStatus' = IF autoLocate.cancelled THEN locationStatus ELSE "error"
    /\ autoLocate' = [ autoLocate EXCEPT !.pc = "returned" ]

\* resolveDeviceLocation() resumes from the permission request.
AutoLocateAfterPermission(answer) ==
    /\ autoLocate.pc = "requestForegroundPermissionsAsync"
    /\ CASE answer = "granted" ->
              /\ autoLocate' = [ autoLocate EXCEPT !.pc = "getCurrentPositionAsync" ]
              /\ UNCHANGED locationStatus
         [] answer = "denied" ->
              /\ locationStatus' = "denied"
              /\ autoLocate' = [ autoLocate EXCEPT !.pc = "returned" ]
         [] answer = "throws" -> AutoLocateCatch
    /\ UNCHANGED << provinces, provincesReq, isFetchingProvinces, provinceError,
                    activeSite, locationQuery, activeCoords, isResolvingSelection,
                    hasAttemptedAutoLocate, currentLocationLabel, selections >>
    /\ UNCHANGED << homeVars, mapVars >>

\* ... from getCurrentPositionAsync: if (cancelled) return; setActiveCoords(coords)
\* and suspend at `await reverseGeocodeAsync(...)`.
AutoLocateAfterPosition(ok) ==
    /\ autoLocate.pc = "getCurrentPositionAsync"
    /\ IF ~ok
       THEN AutoLocateCatch /\ UNCHANGED activeCoords
       ELSE IF autoLocate.cancelled
            THEN /\ autoLocate' = [ autoLocate EXCEPT !.pc = "returned",
                                                      !.located = TRUE ]
                 /\ UNCHANGED << activeCoords, locationStatus >>
            ELSE /\ autoLocate' = [ autoLocate EXCEPT !.pc = "reverseGeocodeAsync",
                                                      !.located = TRUE ]
                 /\ activeCoords' = DeviceCoords
                 /\ UNCHANGED locationStatus
    /\ UNCHANGED << provinces, provincesReq, isFetchingProvinces, provinceError,
                    activeSite, locationQuery, isResolvingSelection,
                    hasAttemptedAutoLocate, currentLocationLabel, selections >>
    /\ UNCHANGED << homeVars, mapVars >>

\* ... from reverseGeocodeAsync: if (cancelled) return; a label is kept and,
\* when it matches a province, that province becomes the active site; then
\* setLocationStatus('ready'). label is NoSite when no label was found.
AutoLocateAfterReverse(ok, label) ==
    /\ autoLocate.pc = "reverseGeocodeAsync"
    /\ IF ~ok
       THEN AutoLocateCatch /\ UNCHANGED << activeSite, locationQuery, currentLocationLabel >>
       ELSE /\ autoLocate' = [ autoLocate EXCEPT !.pc = "returned" ]
            /\ IF autoLocate.cancelled
               THEN UNCHANGED << activeSite, locationQuery, currentLocationLabel,
                                 locationStatus >>
               ELSE /\ locationStatus' = "ready"
                    /\ currentLocationLabel' =
                          IF label # NoSite THEN label ELSE currentLocationLabel
                    /\ IF \E i \in DOMAIN provinces : provinces[i] = label
                       THEN activeSite' = label /\ locationQuery' = label
                       ELSE UNCHANGED << activeSite, locationQuery >>
    /\ UNCHANGED << provinces, provincesReq, isFetchingProvinces, provinceError,
                    activeCoords, isResolvingSelection, hasAttemptedAutoLocate,
                    selections >>
    /\ UNCHANGED << homeVars, mapVars >>

\* handleSelectSite(province) up to `await Location.geocodeAsync(...)`.
HandleSelectSite(province) ==
    /\ \E i \in DOMAIN provinces : provinces[i] = province
    /\ Len(selections) < MaxSelections
    /\ activeSite' = province
    /\ locationQuery' = province
    /\ currentLocationLabel' = province
    /\ isResolvingSelection' = TRUE
    /\ selections' = Append(selections, [ site |-> province, pc |-> "geocodeAsync",
                                          found |-> FALSE ])
    /\ UNCHANGED << provinces, provincesReq, isFetchingProvinces, provinceError,
                    activeCoords, locationStatus, hasAttemptedAutoLocate, autoLocate >>
    /\ UNCHANGED << homeVars, mapVars >>

\* The k-th handleSelectSite resumes from geocodeAsync: results with an entry
\* become activeCoords, an empty list or an exception leaves them; finally
\* setIsResolvingSelection(false).
GeocodeSelectionSettles(k, answer) ==
    /\ k \in DOMAIN selections
    /\ selections[k].pc = "geocodeAsync"
    /\ selections' = [ selections EXCEPT ![k].pc = "returned",
                                         ![k].found = (answer = "results") ]
    /\ activeCoords' = IF answer = "results" THEN selections[k].site ELSE activeCoords
    /\ isResolvingSelection' = FALSE
    /\ UNCHANGED << provinces, provincesReq, isFetchingProvinces, provinceError,
                    activeSite, locationQuery, locationStatus, hasAttemptedAutoLocate,
                    currentLocationLabel, autoLocate >>
    /\ UNCHANGED << homeVars, mapVars >>

NextMonitoring ==
    \/ MonitoringMount
    \/ \E payload \in { << >>, ProvincePayload }, ok \in BOOLEAN :
           LoadProvincesSettles(payload, ok)
    \/ \E answer \in { "granted", "denied", "throws" } : AutoLocateAfterPermission(answer)
    \/ \E ok \in BOOLEAN : AutoLocateAfterPosition(ok)
    \/ \E province \in { ProvincePayload[i] : i \in DOMAIN ProvincePayload } :
           HandleSelectSite(province)
    \/ \E k \in DOMAIN selections, answer \in { "results", "empty", "throws" } :
           GeocodeSelectionSettles(k, answer)

SpecMonitoring == Init /\ [][NextMonitoring]_vars

\* C27: once the automatic location attempt has started and its calls have
\* returned or thrown, locationStatus is ready, denied or error, not
\* 'locating'; and a position obtained under a granted permission has become
\* activeCoords.
C27_AutoLocateSettles ==
    /\ autoLocate.pc = "returned" => locationStatus \in { "ready", "denied", "error" }
    /\ autoLocate.located => activeCoords # NoCoords

\* C28: while the geocode call of any selection is in flight
\* isResolvingSelection is true, and once all of them have completed (each
\* with a result) activeCoords are those of the site selected last, which is
\* the active site.
C28_SelectionConsistent ==
    /\ (\E k \in DOMAIN selections : selections[k].pc = "geocodeAsync")
           => isResolvingSelection
    /\ ( /\ selections # << >>
         /\ \A k \in DOMAIN selections :
                selections[k].pc = "returned" /\ selections[k].found )
           => /\ activeSite = selections[Len(selections)].site
              /\ activeCoords = selections[Len(selections)].site

\* ------------------------------------------------- a missing station distance
\* C29: the proximity alert is raised only when the station data supply a
\* numeric distance, and that distance is at most 100 m.
C29_AlertNeedsNumericDistance ==
    [][ notif'.proximityAlerts > notif.proximityAlerts
            => /\ globalData'.khoang_cach.type = "number"
               /\ globalData'.khoang_cach.v <= PROXIMITY_THRESHOLD_METERS
      ]_vars

\* ---------------------------------------------------------------- MapScreen
\* event.nativeEvent.progress * 100, rounded, runs from 0 to 100.
FullProgress == 100

\* setStatus({ key }) / setStatus({ key: "progress", progress })
Status(key, progress) == [ key |-> key, progress |-> progress ]

\* The WebView asks whether to start a request: setStatus loading, return true.
HandleShouldStartLoadWithRequest ==
    /\ webview \in { "idle", "ended" }
    /\ webview' = "requested"
    /\ mapStatus' = Status("loading", 0)
    /\ UNCHANGED << homeVars, monitoringVars >>

HandleLoadStart ==
    /\ webview \in { "idle", "requested", "ended" }
    /\ webview' = "started"
    /\ mapStatus' = Status("loading", 0)
    /\ UNCHANGED << homeVars, monitoringVars >>

\* Only a progress strictly between 0 and 100 is shown.
HandleLoadProgress(progress) ==
    /\ webview = "started"
    /\ webview' = webview
    /\ mapStatus' = IF progress > 0 /\ progress < FullProgress
                    THEN Status("progress", progress)
                    ELSE mapStatus
    /\ UNCHANGED << homeVars, monitoringVars >>

HandleLoad ==
    /\ webview \in { "started", "httpError" }
    /\ webview' = "loaded"
    /\ mapStatus' = Status("loaded", 0)
    /\ UNCHANGED << homeVars, monitoringVars >>

\* onError: the load failed; the load-end event follows.
HandleError ==
    /\ webview = "started"
    /\ webview' = "failed"
    /\ mapStatus' = Status("error", 0)
    /\ UNCHANGED << homeVars, monitoringVars >>

\* onHttpError: the server answered with an error status; the answer is
\* still loaded.
HandleHttpError ==
    /\ webview = "started"
    /\ webview' = "httpError"
    /\ mapStatus' = Status("error", 0)
    /\ UNCHANGED << homeVars, monitoringVars >>

\* onLoadEnd: the load ended, with success or with failure.
HandleLoadEnd ==
    /\ webview \in { "loaded", "failed" }
    /\ webview' = "ended"
    /\ mapStatus' = Status("ready", 0)
    /\ UNCHANGED << homeVars, monitoringVars >>

\* status.key !== "ready": the overlay with the loader message is rendered.
LoaderOverlayShown == mapStatus.key # "ready"

NextMap ==
    \/ HandleShouldStartLoadWithRequest
    \/ HandleLoadStart
    \/ \E progress \in 0..FullProgress : HandleLoadProgress(progress)
    \/ HandleLoad
    \/ HandleError
    \/ HandleHttpError
    \/ HandleLoadEnd

SpecMap == Init /\ [][NextMap]_vars

\* C30: once the status is 'error' it stays 'error', the overlay shown, until
\* a new load starts; the load-end event of the failed load does not make
\* it 'ready'.
C30_MapErrorSticky ==
    [][ mapStatus.key = "error"
            => \/ mapStatus'.key = "error" /\ LoaderOverlayShown'
               \/ mapStatus'.key = "loading" /\ webview' \in { "requested", "started" }
      ]_vars

====
